---- MODULE Spec2Model ----
(***************************************************************************)
(* State-machine model of the GroqAPI C++ runtime wrapper:                *)
(*   IOP.cpp / IOP.hpp   (TensorLayout, IODescriptor, EntryPoint, Program, *)
(*                        IOP)                                             *)
(*   SimpleRunner.cpp    (SimpleRunner: construct, bind, invoke, destroy)  *)
(*   Misc.hpp            (GROQOK)                                          *)
(* The native groqio library is the environment: every native call that    *)
(* returns a Status may return success or a failure.                       *)
(***************************************************************************)
EXTENDS Integers, Sequences, FiniteSets, TLC

\* ---------------------------------------------------------------- bounds
\* Largest number of tensor layouts of the two descriptors together.
MaxTensors == 2
\* Byte size of a device buffer (the aggregate size of a descriptor); a
\* tensor's host size is smaller.
MaxSize == 2

\* ------------------------------------------------------ program constants
\* Timeout handed to groq_wait_for_completion.
WaitTimeoutMs == 30000
\* nullptr.
NullPtr == 0
\* Only buffer slot 0 of an IOBufferArray is used (allocated with count 1).
Slot0 == 0

VARIABLES
    iop,              \* the parsed container: [programs |-> Seq(Program)]
    ndebug,           \* TRUE when the build compiles assert() out
    phase,            \* "unbuilt" | "live" | "failed" | "destroyed" | "aborted"
    programIndex,     \* SimpleRunner members, named as in SimpleRunner.hpp
    entrypointIndex,
    tspInputSize,
    tspOutputSize,
    numInputs,
    numOutputs,
    inputIoba,
    outputIoba,
    inputBuffers,
    outputBuffers,
    inputSizes,
    outputSizes,
    op,               \* the last API call: its name, and for a caller's own
                      \* layout call the arguments <<p, e, dir, index,
                      \* inputSize, outputSize>>
    calls,            \* the native calls the last API call made, in order
    err,              \* how the last API call ended
    allocated,        \* IOBufferArray handles the native allocator handed out
    deallocCount,     \* per handle: groq_deallocate_iobuffer_array calls so far
    hostFreed,        \* host buffers freed by the library
    native,           \* what the native parser reports for the container image
    source,           \* the caller's buffer an IOP is built from: its bytes,
                      \* and whether the caller has freed it
    data,             \* IOP::data, the container's own bytes
    handle,           \* IOP::iop, the root native handle: its value and the
                      \* memory groq_iop_init was pointed at
    iopPhase,         \* "unbuilt" | "live" | "failed" | "destroyed" | "aborted"
    rootAcquired,     \* TRUE once groq_iop_init has handed out the root handle
    rootReleases,     \* groq_iop_deinit calls made on the root handle so far
    mem,              \* contents of buffers, by address: the three buffers of a
                      \* caller's own round trip through a layout (host,
                      \* device, host again), or the host buffers a caller
                      \* binds and the device buffers of the two arrays
    bindOrder,        \* the <<direction, index>> pairs the caller has bound, in
                      \* the order of their first successful bind
    lastGiven,        \* per direction and index, the pointer the caller handed
                      \* to the last successful bind there (null: none yet)
    copies            \* session objects copy-constructed from the session and
                      \* not yet destroyed

members == <<programIndex, entrypointIndex, tspInputSize, tspOutputSize,
             numInputs, numOutputs, inputIoba, outputIoba>>
bindings == <<inputBuffers, outputBuffers, inputSizes, outputSizes>>
resources == <<allocated, deallocCount, hostFreed>>
container == <<native, source, data, handle, iopPhase, rootAcquired, rootReleases>>
caller == <<bindOrder, lastGiven, copies>>
vars == <<iop, ndebug, phase, members, bindings, op, calls, err, resources, container,
          mem, caller>>

\* ------------------------------------------------------------ value sets
\* Host sizes a layout may report: an empty tensor, or one smaller than the
\* device buffer it is laid out in.
HostSizes == {0, MaxSize - 1}
\* The caller-owned host buffers, by address.
HostPtrs == {1, 2}
\* The two handles the native allocator hands out.
InputHandle == 1
OutputHandle == 2
Handles == {InputHandle, OutputHandle}
\* The root handle groq_iop_init hands out.
RootHandle == 3
\* Addresses: the caller's buffer handed to IOP(buffer, size), and the storage
\* of IOP::data.
CallerAddr == 1
DataAddr == 4
\* The bytes of a container image of n bytes.
Image(n) == [k \in 1..n |-> k]
\* Addresses of the buffers of a caller's own round trip: the host bytes, the
\* device-side buffer, and the host buffer the bytes come back to.
HostAddr == 5
DeviceAddr == 6
BackAddr == 7
NoBuffers == [a \in {HostAddr, DeviceAddr, BackAddr} |-> <<>>]
\* The address groq_get_data_handle yields for a slot of a buffer array.
DataHandle(ioba, slot) == 100 * ioba + slot

\* ------------------------------------------------------------ errors
NoError == [kind |-> "none", text |-> "", nums |-> <<>>]
\* GROQOK: a non-success Status becomes std::runtime_error("Error N: <call>").
GROQOK(fn) == [kind |-> "Status", text |-> fn, nums |-> <<>>]
\* std::runtime_error built from a text and std::to_string of the sizes.
SizeError(text, nums) == [kind |-> "SizeMismatch", text |-> text, nums |-> nums]
\* std::out_of_range thrown by std::vector::at.
OutOfRange == [kind |-> "IndexOutOfRange", text |-> "vector::at", nums |-> <<>>]
\* A failed assert(): the process is aborted.
AssertFailed(what) == [kind |-> "Abort", text |-> what, nums |-> <<>>]

\* One native call: the layout it is about (<<dir, index>>, or <<>>),
\* source and destination pointers with their sizes, and the Status returned.
NativeCall(fn, layout, input, inputSize, output, outputSize, ok) ==
    [fn |-> fn, layout |-> layout, input |-> input, inputSize |-> inputSize,
     output |-> output, outputSize |-> outputSize, ok |-> ok]

\* ------------------------------------------------------------ container
\* Sequences of host sizes of the layouts of one descriptor.
HostSizeSeqs == UNION {[1..n -> HostSizes] : n \in 0..MaxTensors}

\* TensorLayout::TensorLayout: iodSize is the size handed down by the
\* descriptor, size (the host size) is what the native layout reports.
TensorLayout(hostSize, iodSize) == [size |-> hostSize, iodSize |-> iodSize]

getHostSize(layout) == layout.size
getIoSize(layout) == layout.iodSize

\* IODescriptor::IODescriptor: one TensorLayout per native layout, in the
\* native order, each given the descriptor's aggregate size.
IODescriptor(hostSizes, size) ==
    [layouts |-> [k \in 1..Len(hostSizes) |-> TensorLayout(hostSizes[k], size)],
     size |-> size]

\* EntryPoint::EntryPoint: the two descriptors with the entrypoint's sizes.
EntryPoint(inHostSizes, inputSize, outHostSizes, outputSize) ==
    [input |-> IODescriptor(inHostSizes, inputSize),
     output |-> IODescriptor(outHostSizes, outputSize)]

\* Program::Program, with the program-level sizes the native library
\* reports for groq_program_get_input_size / groq_program_get_output_size.
Program(entrypoints, inputSize, outputSize) ==
    [entrypoints |-> entrypoints, inputSize |-> inputSize, outputSize |-> outputSize]

\* The containers the model is run on: one program with one entrypoint.
Containers ==
    {[programs |-> <<Program(<<EntryPoint(ih, es, oh, MaxSize)>>, ps, MaxSize)>>] :
        <<ih, oh, es, ps>> \in
            {t \in HostSizeSeqs \X HostSizeSeqs \X {MaxSize} \X ((MaxSize - 1)..MaxSize) :
                Len(t[1]) + Len(t[2]) <= MaxTensors}}

getPrograms == iop.programs
numPrograms == Len(iop.programs)

\* std::vector::at with a size_t index: element index + 1 of the sequence.
InRange(seq, index) == index + 1 \in DOMAIN seq
at(seq, index) == seq[index + 1]

\* SimpleRunner::inputTensorLayouts / outputTensorLayouts; LayoutsInRange is
\* whether the two at() calls on the way succeed.
LayoutsInRange(p, e) ==
    /\ InRange(getPrograms, p)
    /\ InRange(at(getPrograms, p).entrypoints, e)
inputTensorLayouts == at(at(getPrograms, programIndex).entrypoints, entrypointIndex).input.layouts
outputTensorLayouts == at(at(getPrograms, programIndex).entrypoints, entrypointIndex).output.layouts

\* ------------------------------------------------------------ transcoding
\* The outcome of a call: the native calls made and the error thrown.
Outcome(cs, e) == [calls |-> cs, err |-> e]

fromHostNoCheck(layout, id, input, inputSize, output, outputSize, ok) ==
    Outcome(<<NativeCall("groq_tensor_layout_from_host", id, input, inputSize,
                         output, outputSize, ok)>>,
            IF ok THEN NoError ELSE GROQOK("groq_tensor_layout_from_host"))

\* fromHost as it would be with source and destination exchanged in the native
\* call.
fromHostSwappedBuffers(layout, id, input, inputSize, output, outputSize, ok) ==
    IF inputSize # getHostSize(layout)
    THEN Outcome(<<>>, SizeError("Input size mismatch", <<getHostSize(layout), inputSize>>))
    ELSE IF outputSize # getIoSize(layout)
    THEN Outcome(<<>>, SizeError("Output size mismatch", <<getIoSize(layout), outputSize>>))
    ELSE Outcome(<<NativeCall("groq_tensor_layout_from_host", id, output, outputSize,
                              input, inputSize, ok)>>,
                 IF ok THEN NoError ELSE GROQOK("groq_tensor_layout_from_host"))

\* TensorLayout::fromHost
fromHost(layout, id, input, inputSize, output, outputSize, ok) ==
    IF inputSize # getHostSize(layout)
    THEN Outcome(<<>>, SizeError("Input size mismatch", <<getHostSize(layout), inputSize>>))
    ELSE IF outputSize # getIoSize(layout)
    THEN Outcome(<<>>, SizeError("Output size mismatch", <<getIoSize(layout), outputSize>>))
    ELSE Outcome(<<NativeCall("groq_tensor_layout_from_host", id, input, inputSize,
                              output, outputSize, ok)>>,
                 IF ok THEN NoError ELSE GROQOK("groq_tensor_layout_from_host"))

toHostSwapped(layout, id, input, inputSize, output, outputSize, ok) ==
    IF inputSize # getHostSize(layout)
    THEN Outcome(<<>>, SizeError("Size mismatch", <<>>))
    ELSE IF outputSize # getIoSize(layout)
    THEN Outcome(<<>>, SizeError("Size mismatch", <<>>))
    ELSE Outcome(<<NativeCall("groq_tensor_layout_to_host", id, input, inputSize,
                              output, outputSize, ok)>>,
                 IF ok THEN NoError ELSE GROQOK("groq_tensor_layout_to_host"))

\* TensorLayout::toHost
toHost(layout, id, input, inputSize, output, outputSize, ok) ==
    IF inputSize # getIoSize(layout)
    THEN Outcome(<<>>, SizeError("Size mismatch", <<>>))
    ELSE IF outputSize # getHostSize(layout)
    THEN Outcome(<<>>, SizeError("Size mismatch", <<>>))
    ELSE Outcome(<<NativeCall("groq_tensor_layout_to_host", id, input, inputSize,
                              output, outputSize, ok)>>,
                 IF ok THEN NoError ELSE GROQOK("groq_tensor_layout_to_host"))

\* ------------------------------------------------------------ bytes
\* Byte values of the host data (0 is the fill of an untouched buffer).
ByteValues == {1, 2}
Zeros(n) == [j \in 1..n |-> 0]

\* The external conversion, taken to be exactly invertible: the device form
\* of host bytes B in a device buffer of n bytes holds them in reverse order
\* at its end, zero before them.
LayoutFromHost(B, n) ==
    [j \in 1..n |-> IF n + 1 - j \in DOMAIN B THEN B[n + 1 - j] ELSE 0]
\* The host form, m bytes, of the device bytes D.
LayoutToHost(D, m) ==
    [j \in 1..m |-> IF Len(D) + 1 - j \in DOMAIN D THEN D[Len(D) + 1 - j] ELSE 0]

\* The program on the device, taken to turn each byte b of the input buffer
\* that is a byte of host data into b + 2 of the output buffer, and any other
\* into 0.
DeviceRun(D, n) ==
    [j \in 1..n |-> IF j \in DOMAIN D /\ D[j] \in ByteValues THEN D[j] + 2 ELSE 0]

\* A buffer whose first bytes are overwritten with the bytes written.
Fill(old, written) == written \o SubSeq(old, Len(written) + 1, Len(old))

\* What one native call does to the buffers m: a conversion that returns
\* success fills the first outputSize bytes of its destination from the first
\* inputSize bytes of its source; an invocation that is accepted fills slot 0
\* of the output array from slot 0 of the input array.
applyNative(m, c) ==
    IF ~c.ok THEN m
    ELSE IF c.fn = "groq_tensor_layout_from_host"
    THEN IF c.input \notin DOMAIN m \/ c.output \notin DOMAIN m THEN m
         ELSE [m EXCEPT ![c.output] =
                  Fill(@, LayoutFromHost(SubSeq(m[c.input], 1, c.inputSize), c.outputSize))]
    ELSE IF c.fn = "groq_tensor_layout_to_host"
    THEN IF c.input \notin DOMAIN m \/ c.output \notin DOMAIN m THEN m
         ELSE [m EXCEPT ![c.output] =
                  Fill(@, LayoutToHost(SubSeq(m[c.input], 1, c.inputSize), c.outputSize))]
    ELSE IF c.fn = "groq_invoke"
    THEN IF DataHandle(c.input, Slot0) \notin DOMAIN m
            \/ DataHandle(c.output, Slot0) \notin DOMAIN m THEN m
         ELSE [m EXCEPT ![DataHandle(c.output, Slot0)] =
                  DeviceRun(m[DataHandle(c.input, Slot0)], Len(@))]
    ELSE m

RECURSIVE Effects(_, _)
Effects(m, cs) == IF cs = <<>> THEN m ELSE Effects(applyNative(m, Head(cs)), Tail(cs))

\* ------------------------------------------------------------ session
Op(name, args) == [name |-> name, args |-> args]

\* Identity of a native layout handle: program, entrypoint, direction
\* (0 input descriptor, 1 output descriptor) and position.
LayoutId(p, e, dir, index) == <<p, e, dir, index>>

\* The first loop as it would be if it skipped the indices no buffer was ever
\* bound to.
RECURSIVE transformInputsSkipUnbound(_, _, _)
transformInputsSkipUnbound(i, acc, failAt) ==
    IF i >= numInputs \/ acc.err.kind # "none" THEN acc
    ELSE IF at(inputBuffers, i) = NullPtr /\ at(inputSizes, i) = 0
    THEN transformInputsSkipUnbound(i + 1, acc, failAt)
    ELSE LET layout == at(inputTensorLayouts, i)
             output == DataHandle(inputIoba, Slot0)
             n == Len(acc.calls) + 1
             got == NativeCall("groq_get_data_handle", <<>>, inputIoba, Slot0,
                               output, 0, failAt # n)
         IN IF failAt = n
            THEN Outcome(acc.calls \o <<got>>, GROQOK("groq_get_data_handle"))
            ELSE LET r == fromHost(layout, <<programIndex, entrypointIndex, 0, i>>,
                                   at(inputBuffers, i), at(inputSizes, i), output,
                                   tspInputSize, failAt # n + 1)
                 IN transformInputsSkipUnbound(
                        i + 1, Outcome(acc.calls \o <<got>> \o r.calls, r.err), failAt)

\* The first loop as it would be if the buffers were kept in the order they
\* were bound in: the i-th buffer bound goes through the i-th layout.
RECURSIVE transformInputsInBindOrder(_, _, _)
transformInputsInBindOrder(i, acc, failAt) ==
    IF i >= numInputs \/ acc.err.kind # "none" THEN acc
    ELSE LET boundInputs == SelectSeq(bindOrder, LAMBDA b : b[1] = 0)
             from == IF i + 1 \in DOMAIN boundInputs THEN boundInputs[i + 1][2] ELSE i
             layout == at(inputTensorLayouts, i)
             input == at(inputBuffers, from)
             inputSize == at(inputSizes, from)
             output == DataHandle(inputIoba, Slot0)
             n == Len(acc.calls) + 1
             got == NativeCall("groq_get_data_handle", <<>>, inputIoba, Slot0,
                               output, 0, failAt # n)
         IN IF failAt = n
            THEN Outcome(acc.calls \o <<got>>, GROQOK("groq_get_data_handle"))
            ELSE IF ~ndebug /\ input = NullPtr
            THEN Outcome(acc.calls \o <<got>>, AssertFailed("input"))
            ELSE LET r == fromHost(layout, LayoutId(programIndex, entrypointIndex, 0, i),
                                   input, inputSize, output, tspInputSize, failAt # n + 1)
                 IN transformInputsInBindOrder(
                        i + 1, Outcome(acc.calls \o <<got>> \o r.calls, r.err), failAt)

\* The first loop as it would be if every input index had a buffer slot of its
\* own in the input array: input i is transcoded to the data of slot i.
RECURSIVE transformInputsOwnSlot(_, _, _)
transformInputsOwnSlot(i, acc, failAt) ==
    IF i >= numInputs \/ acc.err.kind # "none" THEN acc
    ELSE LET layout == at(inputTensorLayouts, i)
             input == at(inputBuffers, i)
             inputSize == at(inputSizes, i)
             output == DataHandle(inputIoba, i)
             n == Len(acc.calls) + 1
             got == NativeCall("groq_get_data_handle", <<>>, inputIoba, i,
                               output, 0, failAt # n)
         IN IF failAt = n
            THEN Outcome(acc.calls \o <<got>>, GROQOK("groq_get_data_handle"))
            ELSE IF ~ndebug /\ input = NullPtr
            THEN Outcome(acc.calls \o <<got>>, AssertFailed("input"))
            ELSE LET r == fromHost(layout, LayoutId(programIndex, entrypointIndex, 0, i),
                                   input, inputSize, output, tspInputSize, failAt # n + 1)
                 IN transformInputsOwnSlot(
                        i + 1, Outcome(acc.calls \o <<got>> \o r.calls, r.err), failAt)

\* SimpleRunner::invoke, first loop: every input index in turn. failAt is
\* the ordinal of the native call of this invoke that returns a failure
\* Status (0: none does).
RECURSIVE transformInputs(_, _, _)
transformInputs(i, acc, failAt) ==
    IF i >= numInputs \/ acc.err.kind # "none" THEN acc
    ELSE LET layout == at(inputTensorLayouts, i)
             input == at(inputBuffers, i)
             inputSize == at(inputSizes, i)
             outputSize == tspInputSize
             output == DataHandle(inputIoba, Slot0)
             n == Len(acc.calls) + 1
             got == NativeCall("groq_get_data_handle", <<>>, inputIoba, Slot0,
                               output, 0, failAt # n)
         IN IF failAt = n
            THEN Outcome(acc.calls \o <<got>>, GROQOK("groq_get_data_handle"))
            ELSE IF ~ndebug /\ input = NullPtr
            THEN Outcome(acc.calls \o <<got>>, AssertFailed("input"))
            ELSE LET r == fromHost(layout, LayoutId(programIndex, entrypointIndex, 0, i),
                                   input, inputSize, output, outputSize, failAt # n + 1)
                 IN transformInputs(i + 1, Outcome(acc.calls \o <<got>> \o r.calls, r.err),
                                    failAt)

\* SimpleRunner::invoke, second loop: every output index in turn.
RECURSIVE transformOutputs(_, _, _)
transformOutputs(i, acc, failAt) ==
    IF i >= numOutputs \/ acc.err.kind # "none" THEN acc
    ELSE LET layout == at(outputTensorLayouts, i)
             input == DataHandle(outputIoba, Slot0)
             output == at(outputBuffers, i)
             inputSize == getIoSize(layout)
             outputSize == at(outputSizes, i)
             n == Len(acc.calls) + 1
             got == NativeCall("groq_get_data_handle", <<>>, outputIoba, Slot0,
                               input, 0, failAt # n)
         IN IF failAt = n
            THEN Outcome(acc.calls \o <<got>>, GROQOK("groq_get_data_handle"))
            ELSE IF ~ndebug /\ output = NullPtr
            THEN Outcome(acc.calls \o <<got>>, AssertFailed("output"))
            ELSE LET r == toHost(layout, LayoutId(programIndex, entrypointIndex, 1, i),
                                 input, inputSize, output, outputSize, failAt # n + 1)
                 IN transformOutputs(i + 1, Outcome(acc.calls \o <<got>> \o r.calls, r.err),
                                     failAt)

\* The execute as it would be if a wait that failed were tried once more.
executeRetryWait(acc, failAt) ==
    LET n == Len(acc.calls) + 1
        inv == NativeCall("groq_invoke", <<>>, inputIoba, 0, outputIoba, 0, failAt # n)
        wait == NativeCall("groq_wait_for_completion", <<>>, NullPtr, WaitTimeoutMs,
                           NullPtr, 0, failAt # n + 1)
        again == NativeCall("groq_wait_for_completion", <<>>, NullPtr, WaitTimeoutMs,
                            NullPtr, 0, TRUE)
    IN IF failAt = n
       THEN Outcome(acc.calls \o <<inv>>, GROQOK("groq_invoke"))
       ELSE IF failAt = n + 1
       THEN Outcome(acc.calls \o <<inv, wait, again>>, NoError)
       ELSE Outcome(acc.calls \o <<inv, wait>>, NoError)

\* groq_invoke followed by groq_wait_for_completion, after the calls in acc.
execute(acc, failAt) ==
    LET n == Len(acc.calls) + 1
        inv == NativeCall("groq_invoke", <<>>, inputIoba, 0, outputIoba, 0, failAt # n)
        wait == NativeCall("groq_wait_for_completion", <<>>, NullPtr, WaitTimeoutMs,
                           NullPtr, 0, failAt # n + 1)
    IN IF failAt = n
       THEN Outcome(acc.calls \o <<inv>>, GROQOK("groq_invoke"))
       ELSE IF failAt = n + 1
       THEN Outcome(acc.calls \o <<inv, wait>>, GROQOK("groq_wait_for_completion"))
       ELSE Outcome(acc.calls \o <<inv, wait>>, NoError)

\* invoke as it would be with the results read back before the program ran.
invokeOutputsFirst(failAt) ==
    LET a == transformInputs(0, Outcome(<<>>, NoError), failAt)
    IN IF a.err.kind # "none" THEN a
       ELSE LET o == transformOutputs(0, a, failAt)
            IN IF o.err.kind # "none" THEN o ELSE execute(o, failAt)

\* SimpleRunner::invoke: what it calls and how it ends.
invoke(failAt) ==
    IF ~ndebug /\ (inputIoba = NullPtr \/ outputIoba = NullPtr)
    THEN Outcome(<<>>, AssertFailed("ioba"))
    ELSE LET a == transformInputs(0, Outcome(<<>>, NoError), failAt)
         IN IF a.err.kind # "none" THEN a
            ELSE LET x == execute(a, failAt)
                 IN IF x.err.kind # "none" THEN x
                    ELSE transformOutputs(0, x, failAt)

\* The destructor as it would be with the input array named in both calls.
destructorInputTwice(okIn, okOut) ==
    <<NativeCall("groq_deallocate_iobuffer_array", <<>>, inputIoba, 0, NullPtr, 0, okIn),
      NativeCall("groq_deallocate_iobuffer_array", <<>>, inputIoba, 0, NullPtr, 0, okOut)>>

\* SimpleRunner::~SimpleRunner: the native calls made; both statuses are
\* assigned to a local and dropped.
destructor(okIn, okOut) ==
    <<NativeCall("groq_deallocate_iobuffer_array", <<>>, inputIoba, 0, NullPtr, 0, okIn),
      NativeCall("groq_deallocate_iobuffer_array", <<>>, outputIoba, 0, NullPtr, 0, okOut)>>

\* Number of deallocate calls in cs that name handle h.
RECURSIVE Deallocs(_, _)
Deallocs(cs, h) ==
    IF cs = <<>> THEN 0
    ELSE (IF Head(cs).fn = "groq_deallocate_iobuffer_array" /\ Head(cs).input = h
          THEN 1 ELSE 0) + Deallocs(Tail(cs), h)

\* ------------------------------------------------------------ actions
\* No pointer handed to a bind yet, for the layouts of the two descriptors.
NoneGiven(inputs, outputs) ==
    [input |-> [k \in DOMAIN inputs |-> NullPtr],
     output |-> [k \in DOMAIN outputs |-> NullPtr]]

Init ==
    /\ iop \in Containers
    /\ ndebug \in BOOLEAN
    /\ phase = "unbuilt"
    /\ programIndex = 0 /\ entrypointIndex = 0
    /\ tspInputSize = 0 /\ tspOutputSize = 0
    /\ numInputs = 0 /\ numOutputs = 0
    /\ inputIoba = NullPtr /\ outputIoba = NullPtr
    /\ inputBuffers = <<>> /\ outputBuffers = <<>>
    /\ inputSizes = <<>> /\ outputSizes = <<>>
    /\ op = Op("none", <<>>)
    /\ calls = <<>>
    /\ err = NoError
    /\ allocated = {}
    /\ deallocCount = [h \in Handles |-> 0]
    /\ hostFreed = {}
    /\ native = iop
    /\ source = [bytes |-> Image(1), freed |-> FALSE]
    /\ data = Image(1)
    /\ handle = [root |-> RootHandle, ptr |-> DataAddr, size |-> 1]
    /\ iopPhase = "live"
    /\ rootAcquired = TRUE
    /\ rootReleases = 0
    /\ mem = NoBuffers
    /\ bindOrder = <<>>
    /\ lastGiven = NoneGiven(<<>>, <<>>)
    /\ copies = 0

\* SimpleRunner::SimpleRunner(driver, iop, p, e); okIn and okOut are the
\* statuses of the two allocations. The members are initialised in the order
\* of their declaration: the two program sizes are asked of the native
\* library before inputTensorLayouts() is first called.
Construct(p, e, okIn, okOut) ==
    LET sizeCalls ==
            <<NativeCall("groq_program_get_input_size", <<>>, p, 0, NullPtr, 0, TRUE),
              NativeCall("groq_program_get_output_size", <<>>, p, 0, NullPtr, 0, TRUE)>>
        allocIn == NativeCall("groq_allocate_inputs_iobuffer_array", <<>>, NullPtr, 1,
                              IF okIn THEN InputHandle ELSE NullPtr, 0, okIn)
        allocOut == NativeCall("groq_allocate_outputs_iobuffer_array", <<>>, NullPtr, 1,
                               IF okOut THEN OutputHandle ELSE NullPtr, 0, okOut)
        ep == at(at(getPrograms, p).entrypoints, e)
    IN /\ phase = "unbuilt"
       /\ iopPhase = "live"
       /\ op' = Op("SimpleRunner", <<p, e>>)
       /\ UNCHANGED <<iop, ndebug, deallocCount, hostFreed, container, mem, bindOrder,
                      copies>>
       /\ IF ~LayoutsInRange(p, e)
          THEN /\ phase' = "failed"
               /\ err' = OutOfRange
               /\ calls' = sizeCalls
               /\ UNCHANGED <<members, bindings, allocated, lastGiven>>
          ELSE IF ~okIn
          THEN /\ phase' = "failed"
               /\ err' = GROQOK("groq_allocate_inputs_iobuffer_array")
               /\ calls' = sizeCalls \o <<allocIn>>
               /\ UNCHANGED <<members, bindings, allocated, lastGiven>>
          ELSE IF ~okOut
          THEN /\ phase' = "failed"
               /\ err' = GROQOK("groq_allocate_outputs_iobuffer_array")
               /\ calls' = sizeCalls \o <<allocIn, allocOut>>
               /\ allocated' = allocated \cup {InputHandle}
               /\ UNCHANGED <<members, bindings, lastGiven>>
          ELSE /\ phase' = "live"
               /\ err' = NoError
               /\ calls' = sizeCalls \o <<allocIn, allocOut>>
               /\ allocated' = allocated \cup {InputHandle, OutputHandle}
               /\ programIndex' = p
               /\ entrypointIndex' = e
               /\ tspInputSize' = at(native.programs, p).inputSize
               /\ tspOutputSize' = at(native.programs, p).outputSize
               /\ numInputs' = Len(ep.input.layouts)
               /\ numOutputs' = Len(ep.output.layouts)
               /\ inputIoba' = InputHandle
               /\ outputIoba' = OutputHandle
               /\ inputBuffers' = [k \in 1..Len(ep.input.layouts) |-> NullPtr]
               /\ outputBuffers' = [k \in 1..Len(ep.output.layouts) |-> NullPtr]
               /\ inputSizes' = [k \in 1..Len(ep.input.layouts) |-> 0]
               /\ outputSizes' = [k \in 1..Len(ep.output.layouts) |-> 0]
               /\ lastGiven' = NoneGiven(ep.input.layouts, ep.output.layouts)

\* What a bind call leaves behind: the error thrown, the native calls made
\* and the four binding vectors.
Bound(e, ib, is, ob, os) ==
    [err |-> e, calls |-> <<>>, inputBuffers |-> ib, inputSizes |-> is,
     outputBuffers |-> ob, outputSizes |-> os]

\* addInputBuffer as it would be with the pointer stored before the size is
\* validated.
addInputBufferStoreFirst(buffer, size, index) ==
    IF ~InRange(inputTensorLayouts, index)
    THEN Bound(OutOfRange, inputBuffers, inputSizes, outputBuffers, outputSizes)
    ELSE IF size # getHostSize(at(inputTensorLayouts, index))
    THEN Bound(SizeError("Bad data size",
                         <<getHostSize(at(inputTensorLayouts, index)), size>>),
               [inputBuffers EXCEPT ![index + 1] = buffer], inputSizes,
               outputBuffers, outputSizes)
    ELSE IF ~ndebug /\ buffer = NullPtr
    THEN Bound(AssertFailed("buffer"), inputBuffers, inputSizes, outputBuffers, outputSizes)
    ELSE Bound(NoError, [inputBuffers EXCEPT ![index + 1] = buffer],
               [inputSizes EXCEPT ![index + 1] = size], outputBuffers, outputSizes)

\* addInputBuffer as it would be with unchecked indexing that lets an index
\* past the end through.
addInputBufferUnchecked(buffer, size, index) ==
    IF ~InRange(inputTensorLayouts, index)
    THEN Bound(NoError, inputBuffers, inputSizes, outputBuffers, outputSizes)
    ELSE IF size # getHostSize(at(inputTensorLayouts, index))
    THEN Bound(SizeError("Bad data size",
                         <<getHostSize(at(inputTensorLayouts, index)), size>>),
               inputBuffers, inputSizes, outputBuffers, outputSizes)
    ELSE IF ~ndebug /\ buffer = NullPtr
    THEN Bound(AssertFailed("buffer"), inputBuffers, inputSizes, outputBuffers, outputSizes)
    ELSE Bound(NoError, [inputBuffers EXCEPT ![index + 1] = buffer],
               [inputSizes EXCEPT ![index + 1] = size], outputBuffers, outputSizes)

\* addInputBuffer as it would be if it always stored at the front.
addInputBufferFront(buffer, size, index) ==
    IF ~InRange(inputTensorLayouts, index)
    THEN Bound(OutOfRange, inputBuffers, inputSizes, outputBuffers, outputSizes)
    ELSE IF size # getHostSize(at(inputTensorLayouts, index))
    THEN Bound(SizeError("Bad data size",
                         <<getHostSize(at(inputTensorLayouts, index)), size>>),
               inputBuffers, inputSizes, outputBuffers, outputSizes)
    ELSE IF ~ndebug /\ buffer = NullPtr
    THEN Bound(AssertFailed("buffer"), inputBuffers, inputSizes, outputBuffers, outputSizes)
    ELSE Bound(NoError, [inputBuffers EXCEPT ![1] = buffer],
               [inputSizes EXCEPT ![1] = size], outputBuffers, outputSizes)

\* SimpleRunner::addInputBuffer: layouts.at(index), the size check, the
\* assert, the two stores.
addInputBuffer(buffer, size, index) ==
    IF ~InRange(inputTensorLayouts, index)
    THEN Bound(OutOfRange, inputBuffers, inputSizes, outputBuffers, outputSizes)
    ELSE IF size # getHostSize(at(inputTensorLayouts, index))
    THEN Bound(SizeError("Bad data size",
                         <<getHostSize(at(inputTensorLayouts, index)), size>>),
               inputBuffers, inputSizes, outputBuffers, outputSizes)
    ELSE IF ~ndebug /\ buffer = NullPtr
    THEN Bound(AssertFailed("buffer"), inputBuffers, inputSizes, outputBuffers, outputSizes)
    ELSE Bound(NoError, [inputBuffers EXCEPT ![index + 1] = buffer],
               [inputSizes EXCEPT ![index + 1] = size], outputBuffers, outputSizes)

\* addOutputBuffer as it would be if it recorded the pointer only.
addOutputBufferKeepSize(buffer, size, index) ==
    IF ~InRange(outputTensorLayouts, index)
    THEN Bound(OutOfRange, inputBuffers, inputSizes, outputBuffers, outputSizes)
    ELSE IF size # getHostSize(at(outputTensorLayouts, index))
    THEN Bound(SizeError("Bad data size",
                         <<getHostSize(at(outputTensorLayouts, index)), size>>),
               inputBuffers, inputSizes, outputBuffers, outputSizes)
    ELSE IF ~ndebug /\ buffer = NullPtr
    THEN Bound(AssertFailed("buffer"), inputBuffers, inputSizes, outputBuffers, outputSizes)
    ELSE Bound(NoError, inputBuffers, inputSizes,
               [outputBuffers EXCEPT ![index + 1] = buffer], outputSizes)

\* SimpleRunner::addOutputBuffer
addOutputBuffer(buffer, size, index) ==
    IF ~InRange(outputTensorLayouts, index)
    THEN Bound(OutOfRange, inputBuffers, inputSizes, outputBuffers, outputSizes)
    ELSE IF size # getHostSize(at(outputTensorLayouts, index))
    THEN Bound(SizeError("Bad data size",
                         <<getHostSize(at(outputTensorLayouts, index)), size>>),
               inputBuffers, inputSizes, outputBuffers, outputSizes)
    ELSE IF ~ndebug /\ buffer = NullPtr
    THEN Bound(AssertFailed("buffer"), inputBuffers, inputSizes, outputBuffers, outputSizes)
    ELSE Bound(NoError, inputBuffers, inputSizes,
               [outputBuffers EXCEPT ![index + 1] = buffer],
               [outputSizes EXCEPT ![index + 1] = size])

\* A bind call on the live session, direction dir (0 input, 1 output); a
\* failed assert aborts the process. The caller's record of what it has bound
\* follows the calls that returned normally.
Bind(name, dir, buffer, index, r) ==
    /\ phase = "live"
    /\ op' = Op(name, <<>>)
    /\ calls' = r.calls
    /\ err' = r.err
    /\ phase' = IF r.err.kind = "Abort" THEN "aborted" ELSE phase
    /\ inputBuffers' = r.inputBuffers
    /\ inputSizes' = r.inputSizes
    /\ outputBuffers' = r.outputBuffers
    /\ outputSizes' = r.outputSizes
    /\ bindOrder' = IF r.err = NoError /\ \A k \in DOMAIN bindOrder :
                                             bindOrder[k] # <<dir, index>>
                    THEN Append(bindOrder, <<dir, index>>) ELSE bindOrder
    /\ lastGiven' = IF r.err # NoError THEN lastGiven
                    ELSE IF dir = 0 THEN [lastGiven EXCEPT !.input[index + 1] = buffer]
                    ELSE [lastGiven EXCEPT !.output[index + 1] = buffer]
    /\ UNCHANGED <<iop, ndebug, members, resources, container, mem, copies>>

AddInputBuffer(buffer, size, index) ==
    Bind("addInputBuffer", 0, buffer, index, addInputBuffer(buffer, size, index))

AddOutputBuffer(buffer, size, index) ==
    Bind("addOutputBuffer", 1, buffer, index, addOutputBuffer(buffer, size, index))

\* invoke as it would be if it gave the buffers back after a run: the
\* bindings are reset to the constructor's.
InvokeConsuming(failAt) ==
    /\ phase = "live"
    /\ op' = Op("invoke", <<>>)
    /\ calls' = invoke(failAt).calls
    /\ err' = invoke(failAt).err
    /\ phase' = IF invoke(failAt).err.kind = "Abort" THEN "aborted" ELSE phase
    /\ inputBuffers' = [k \in DOMAIN inputBuffers |-> NullPtr]
    /\ inputSizes' = [k \in DOMAIN inputSizes |-> 0]
    /\ UNCHANGED <<outputBuffers, outputSizes>>
    /\ UNCHANGED <<iop, ndebug, members, resources, container, mem, caller>>

\* invoke as it would be if it wrote the program's device size back into the
\* input descriptor it transcodes through.
InvokeResizing(failAt) ==
    /\ phase = "live"
    /\ op' = Op("invoke", <<>>)
    /\ calls' = invoke(failAt).calls
    /\ err' = invoke(failAt).err
    /\ phase' = IF invoke(failAt).err.kind = "Abort" THEN "aborted" ELSE phase
    /\ iop' = [iop EXCEPT !.programs[programIndex + 1].entrypoints[entrypointIndex + 1]
                              .input.size = tspInputSize]
    /\ UNCHANGED <<ndebug, members, bindings, resources, container, mem, caller>>

\* invoke as it would be if the transcodes went through private copies of
\* the bound buffers: the caller's buffers are left as they were.
InvokeIntoCopies(failAt) ==
    /\ phase = "live"
    /\ op' = Op("invoke", <<>>)
    /\ calls' = invoke(failAt).calls
    /\ err' = invoke(failAt).err
    /\ phase' = IF invoke(failAt).err.kind = "Abort" THEN "aborted" ELSE phase
    /\ mem' = [a \in DOMAIN mem |-> IF a \in HostPtrs THEN mem[a]
                                     ELSE Effects(mem, invoke(failAt).calls)[a]]
    /\ UNCHANGED <<iop, ndebug, members, bindings, resources, container, caller>>

\* SimpleRunner::invoke(device); the native calls that succeed act on the
\* buffers they are handed.
Invoke(failAt) ==
    /\ phase = "live"
    /\ op' = Op("invoke", <<>>)
    /\ calls' = invoke(failAt).calls
    /\ err' = invoke(failAt).err
    /\ phase' = IF invoke(failAt).err.kind = "Abort" THEN "aborted" ELSE phase
    /\ mem' = Effects(mem, invoke(failAt).calls)
    /\ UNCHANGED <<iop, ndebug, members, bindings, resources, container, caller>>

\* SimpleRunner::~SimpleRunner of a constructed session.
Destroy(okIn, okOut) ==
    /\ phase = "live"
    /\ op' = Op("~SimpleRunner", <<>>)
    /\ calls' = destructor(okIn, okOut)
    /\ err' = NoError
    /\ deallocCount' = [h \in Handles |-> deallocCount[h] + Deallocs(destructor(okIn, okOut), h)]
    /\ phase' = "destroyed"
    /\ UNCHANGED <<iop, ndebug, members, bindings, allocated, hostFreed, container, mem, caller>>

\* A caller's own call of TensorLayout::fromHost on a layout of the container,
\* with caller buffers 1 (source) and 2 (destination).
CallFromHost(p, e, dir, index, inputSize, outputSize, ok) ==
    LET ep == at(at(getPrograms, p).entrypoints, e)
        layouts == IF dir = 0 THEN ep.input.layouts ELSE ep.output.layouts
        r == fromHost(at(layouts, index), LayoutId(p, e, dir, index), 1, inputSize,
                      2, outputSize, ok)
    IN /\ op.name = "none"
       /\ LayoutsInRange(p, e)
       /\ InRange(layouts, index)
       /\ op' = Op("fromHost", <<p, e, dir, index, inputSize, outputSize>>)
       /\ calls' = r.calls
       /\ err' = r.err
       /\ UNCHANGED <<iop, ndebug, phase, members, bindings, resources, container, mem, caller>>

\* A caller's own call of TensorLayout::toHost.
CallToHost(p, e, dir, index, inputSize, outputSize, ok) ==
    LET ep == at(at(getPrograms, p).entrypoints, e)
        layouts == IF dir = 0 THEN ep.input.layouts ELSE ep.output.layouts
        r == toHost(at(layouts, index), LayoutId(p, e, dir, index), 1, inputSize,
                    2, outputSize, ok)
    IN /\ op.name = "none"
       /\ LayoutsInRange(p, e)
       /\ InRange(layouts, index)
       /\ op' = Op("toHost", <<p, e, dir, index, inputSize, outputSize>>)
       /\ calls' = r.calls
       /\ err' = r.err
       /\ UNCHANGED <<iop, ndebug, phase, members, bindings, resources, container, mem, caller>>

\* Arguments the environment may pass.
ArgSizes == 0..(MaxSize + 1)
\* Sizes passed to the bind calls: the host sizes and one no layout has.
AddSizes == HostSizes \cup {MaxSize}
ArgIndexes == 0..MaxTensors
ArgBuffers == {NullPtr} \cup HostPtrs
ArgPrograms == 0..1
FailPoints == 0..(2 * MaxTensors + 2)

Next ==
    \/ \E p \in ArgPrograms, e \in ArgPrograms, okIn \in BOOLEAN, okOut \in BOOLEAN :
           Construct(p, e, okIn, okOut)
    \/ \E buffer \in ArgBuffers, size \in AddSizes, index \in ArgIndexes :
           AddInputBuffer(buffer, size, index)
    \/ \E buffer \in ArgBuffers, size \in AddSizes, index \in ArgIndexes :
           AddOutputBuffer(buffer, size, index)
    \/ \E failAt \in FailPoints : Invoke(failAt)
    \/ \E okIn \in BOOLEAN, okOut \in BOOLEAN : Destroy(okIn, okOut)

\* The session: construction, binding, invocation, destruction.
Spec == Init /\ [][Next]_vars

\* Most copies a caller makes of the session object.
MaxCopies == 1

\* The implicit copy constructor of SimpleRunner: the class declares a
\* destructor and no copy operation, so a copy is member-wise and holds the
\* same two buffer-array handles.
CopySession ==
    /\ phase = "live"
    /\ copies + deallocCount[inputIoba] < MaxCopies
    /\ copies' = copies + 1
    /\ op' = Op("SimpleRunner(const SimpleRunner &)", <<>>)
    /\ calls' = <<>>
    /\ err' = NoError
    /\ UNCHANGED <<iop, ndebug, phase, members, bindings, resources, container, mem,
                   bindOrder, lastGiven>>

\* SimpleRunner::~SimpleRunner of a copy.
DestroyCopy(okIn, okOut) ==
    /\ copies > 0
    /\ copies' = copies - 1
    /\ op' = Op("~SimpleRunner", <<>>)
    /\ calls' = destructor(okIn, okOut)
    /\ err' = NoError
    /\ deallocCount' = [h \in Handles |-> deallocCount[h] + Deallocs(destructor(okIn, okOut), h)]
    /\ UNCHANGED <<iop, ndebug, phase, members, bindings, allocated, hostFreed, container,
                   mem, bindOrder, lastGiven>>

NextCopy ==
    \/ \E p \in ArgPrograms, e \in ArgPrograms, okIn \in BOOLEAN, okOut \in BOOLEAN :
           Construct(p, e, okIn, okOut)
    \/ CopySession
    \/ \E okIn \in BOOLEAN, okOut \in BOOLEAN : Destroy(okIn, okOut)
    \/ \E okIn \in BOOLEAN, okOut \in BOOLEAN : DestroyCopy(okIn, okOut)

\* The lifetime of a session object and of the copies a caller makes of it.
SpecCopy == Init /\ [][NextCopy]_vars

\* The addresses of a session's buffers: the caller's host buffers and slot 0
\* of the two buffer arrays.
SessionAddrs ==
    HostPtrs \cup {DataHandle(InputHandle, Slot0), DataHandle(OutputHandle, Slot0)}

\* As Init, in a build with asserts, with the bytes of the buffers: the
\* caller's host buffers, of the largest host size, and the device buffers, of
\* the device size, all untouched.
InitBytes ==
    /\ iop \in Containers
    /\ ndebug = FALSE
    /\ phase = "unbuilt"
    /\ programIndex = 0 /\ entrypointIndex = 0
    /\ tspInputSize = 0 /\ tspOutputSize = 0
    /\ numInputs = 0 /\ numOutputs = 0
    /\ inputIoba = NullPtr /\ outputIoba = NullPtr
    /\ inputBuffers = <<>> /\ outputBuffers = <<>>
    /\ inputSizes = <<>> /\ outputSizes = <<>>
    /\ op = Op("none", <<>>)
    /\ calls = <<>>
    /\ err = NoError
    /\ allocated = {}
    /\ deallocCount = [h \in Handles |-> 0]
    /\ hostFreed = {}
    /\ native = iop
    /\ source = [bytes |-> Image(1), freed |-> FALSE]
    /\ data = Image(1)
    /\ handle = [root |-> RootHandle, ptr |-> DataAddr, size |-> 1]
    /\ iopPhase = "live"
    /\ rootAcquired = TRUE
    /\ rootReleases = 0
    /\ mem = [a \in SessionAddrs |->
                 IF a \in HostPtrs THEN Zeros(MaxSize - 1) ELSE Zeros(MaxSize)]
    /\ bindOrder = <<>>
    /\ lastGiven = NoneGiven(<<>>, <<>>)
    /\ copies = 0

\* The byte a caller fills its buffers with.
WrittenByte == 2

\* The caller overwrites a host buffer it has bound with the byte v.
CallerWritesHost(ptr, v) ==
    /\ phase = "live"
    /\ \/ \E k \in DOMAIN inputBuffers : inputBuffers[k] = ptr
       \/ \E k \in DOMAIN outputBuffers : outputBuffers[k] = ptr
    /\ ptr \in DOMAIN mem
    /\ mem[ptr] # [j \in DOMAIN mem[ptr] |-> v]
    /\ mem' = [mem EXCEPT ![ptr] = [j \in DOMAIN @ |-> v]]
    /\ op' = Op("write", <<ptr>>)
    /\ calls' = <<>>
    /\ err' = NoError
    /\ UNCHANGED <<iop, ndebug, phase, members, bindings, resources, container, caller>>

\* The calls of a caller that constructs a session, binds its own buffers with
\* a host size, overwrites them and invokes; of the native calls of an invoke
\* none fails, or the first does.
NextBytes ==
    \/ \E p \in ArgPrograms, e \in ArgPrograms, okIn \in BOOLEAN, okOut \in BOOLEAN :
           Construct(p, e, okIn, okOut)
    \/ \E buffer \in HostPtrs, size \in HostSizes, index \in 0..(MaxTensors - 1) :
           AddInputBuffer(buffer, size, index)
    \/ \E buffer \in HostPtrs, size \in HostSizes, index \in 0..(MaxTensors - 1) :
           AddOutputBuffer(buffer, size, index)
    \/ \E failAt \in 0..1 : Invoke(failAt)
    \/ \E ptr \in HostPtrs : CallerWritesHost(ptr, WrittenByte)

\* The session with the bytes of its buffers, which the caller may overwrite
\* between the calls.
SpecBytes == InitBytes /\ [][NextBytes]_vars

\* The layout methods on their own: a container is drawn, then one call of
\* fromHost or toHost is applied to one of its layouts with any two sizes.
\* The methods are const and read only the layout, so one application per
\* behaviour covers them.
NextLayout ==
    \/ \E p \in ArgPrograms, e \in ArgPrograms, dir \in 0..1, index \in ArgIndexes,
          inputSize \in ArgSizes, outputSize \in ArgSizes, ok \in BOOLEAN :
           CallFromHost(p, e, dir, index, inputSize, outputSize, ok)
    \/ \E p \in ArgPrograms, e \in ArgPrograms, dir \in 0..1, index \in ArgIndexes,
          inputSize \in ArgSizes, outputSize \in ArgSizes, ok \in BOOLEAN :
           CallToHost(p, e, dir, index, inputSize, outputSize, ok)

SpecLayout == Init /\ [][NextLayout]_vars

\* Every call the library offers on a parsed container: a caller's own layout
\* call, and the session's construction, binding, invocation, destruction.
NextApi == Next \/ NextLayout
SpecApi == Init /\ [][NextApi]_vars

\* The calls of cs to the native function fn.
CallsTo(cs, fn) == SelectSeq(cs, LAMBDA c : c.fn = fn)

\* ------------------------------------------------------------ the container
\* Bounds of the container images the parser is run on.
MaxPrograms == 2
MaxEntrypoints == 2
\* Longest caller buffer handed to IOP(buffer, size).
MaxBytes == 2

\* What the native parser reports for the layout at position k of descriptor
\* dir (0 input, 1 output) of entrypoint e of program p: elements differ by
\* position in name, host size, format and dimensions.
NativeLayout(p, e, dir, k) ==
    [name |-> <<"tensor", p, e, dir, k>>,
     size |-> (k + dir) % MaxSize,
     format |-> (k + e) % 2,
     dimensions |-> [d \in 1..(1 + (k % 2)) |-> 10 * (k + 1) + d]]

NativeEntryPoint(p, e, nIn, nOut) ==
    [name |-> <<"entrypoint", p, e>>,
     inputSize |-> MaxSize, outputSize |-> MaxSize - 1,
     input |-> [k \in 1..nIn |-> NativeLayout(p, e, 0, k - 1)],
     output |-> [k \in 1..nOut |-> NativeLayout(p, e, 1, k - 1)]]

\* Program p has nE entrypoints, except that the last program has one less.
NativeProgram(p, nP, nE, nIn, nOut) ==
    [name |-> <<"program", p>>,
     inputSize |-> MaxSize - (p % 2), outputSize |-> MaxSize - 1,
     entrypoints |-> [e \in 1..(IF p = nP - 1 /\ nE > 0 THEN nE - 1 ELSE nE) |->
                         NativeEntryPoint(p, e - 1, nIn, nOut)]]

NativeIOP(nP, nE, nIn, nOut) ==
    [programs |-> [p \in 1..nP |-> NativeProgram(p - 1, nP, nE, nIn, nOut)]]

NativeImages ==
    {NativeIOP(nP, nE, nIn, nOut) :
        nP \in 0..MaxPrograms, nE \in 0..MaxEntrypoints,
        nIn \in 0..MaxTensors, nOut \in 0..1}

\* A construction in progress: the native calls made so far, the error
\* thrown, and the value built so far.
Parse(cs, e, v) == [calls |-> cs, err |-> e, val |-> v]

\* The element of a one-element set. Only({e(x) : x \in {v}}) is e of the
\* value of v, with v computed once: one statement after another.
Only(S) == CHOOSE x \in S : TRUE

\* The construction of a nested object begins: the calls made and the error
\* thrown so far carry on, nothing of the object is built yet.
Begin(acc) == Only({Parse(a.calls, a.err, <<>>) : a \in {acc}})

\* A native call whose Status is dropped.
groqCallUnchecked(acc, fn, id, nth, failAt) ==
    Only({ IF a.err.kind # "none" THEN a
           ELSE Parse(Append(a.calls,
                             NativeCall(fn, id, nth, 0, NullPtr, 0,
                                        failAt # Len(a.calls) + 1)),
                      NoError, a.val) :
           a \in {acc} })

\* GROQOK(fn(handle, nth, &out)): the call is made unless an earlier one
\* already threw; a non-success Status throws.
groqCall(acc, fn, id, nth, failAt) ==
    Only({ IF a.err.kind # "none" THEN a
           ELSE Parse(Append(a.calls,
                             NativeCall(fn, id, nth, 0, NullPtr, 0,
                                        failAt # Len(a.calls) + 1)),
                      IF failAt = Len(a.calls) + 1 THEN GROQOK(fn) ELSE NoError,
                      a.val) :
           a \in {acc} })

\* TensorLayout::TensorLayout, the loop over the dimensions.
RECURSIVE newDimensions(_, _, _, _, _)
newDimensions(nl, id, nth, acc, failAt) ==
    Only({ IF c.err.kind # "none" \/ nth >= Len(nl.dimensions) THEN c
           ELSE Only({ IF a.err.kind # "none" THEN a
                       ELSE newDimensions(nl, id, nth + 1,
                                          Parse(a.calls, a.err,
                                                Append(a.val, at(nl.dimensions, nth))),
                                          failAt) :
                       a \in {groqCall(c, "groq_tensor_layout_get_nth_dimension",
                                       id, nth, failAt)} }) :
           c \in {acc} })

\* The constructor as it would be if a layout kept a size of its own as its
\* ioSize: the host size the native layout reports, not the size handed down.
newTensorLayoutOwnSize(nl, id, name, iodSize, acc, failAt) ==
    Only({ Parse(d.calls, d.err,
                 [layout |-> id, name |-> name, iodSize |-> nl.size, size |-> nl.size,
                  format |-> nl.format, dimensions |-> d.val]) :
           d \in {newDimensions(nl, id, 0,
                      groqCall(
                          groqCall(
                              groqCall(Begin(acc),
                                       "groq_tensor_layout_get_number_of_dimensions",
                                       id, 0, failAt),
                              "groq_tensor_layout_get_size", id, 0, failAt),
                          "groq_tensor_layout_get_format", id, 0, failAt),
                      failAt)} })

\* TensorLayout::TensorLayout(layout, name, iodSize)
newTensorLayout(nl, id, name, iodSize, acc, failAt) ==
    Only({ Parse(d.calls, d.err,
                 [layout |-> id, name |-> name, iodSize |-> iodSize, size |-> nl.size,
                  format |-> nl.format, dimensions |-> d.val]) :
           d \in {newDimensions(nl, id, 0,
                      groqCall(
                          groqCall(
                              groqCall(Begin(acc),
                                       "groq_tensor_layout_get_number_of_dimensions",
                                       id, 0, failAt),
                              "groq_tensor_layout_get_size", id, 0, failAt),
                          "groq_tensor_layout_get_format", id, 0, failAt),
                      failAt)} })

\* The layouts vector as it would be filled by a loop that starts at 1.
RECURSIVE newLayoutsFromOne(_, _, _, _, _, _)
newLayoutsFromOne(nd, id, size, nth, acc, failAt) ==
    Only({ IF c.err.kind # "none" \/ nth + 1 >= Len(nd) THEN c
           ELSE Only({ IF t.err.kind # "none" THEN Parse(t.calls, t.err, c.val)
                       ELSE newLayoutsFromOne(nd, id, size, nth + 1,
                                              Parse(t.calls, t.err, Append(c.val, t.val)),
                                              failAt) :
                       t \in {newTensorLayout(
                                  at(nd, nth + 1), Append(id, nth + 1),
                                  at(nd, nth + 1).name, size,
                                  groqCall(
                                      groqCall(c, "groq_iodescriptor_get_nth_tensor_layout",
                                               id, nth + 1, failAt),
                                      "groq_tensor_layout_get_name",
                                      Append(id, nth + 1), 0, failAt),
                                  failAt)} }) :
           c \in {acc} })

\* IODescriptor::IODescriptor, the loop over the native layouts.
RECURSIVE newLayouts(_, _, _, _, _, _)
newLayouts(nd, id, size, nth, acc, failAt) ==
    Only({ IF c.err.kind # "none" \/ nth >= Len(nd) THEN c
           ELSE Only({ IF t.err.kind # "none" THEN Parse(t.calls, t.err, c.val)
                       ELSE newLayouts(nd, id, size, nth + 1,
                                       Parse(t.calls, t.err, Append(c.val, t.val)),
                                       failAt) :
                       t \in {newTensorLayout(
                                  at(nd, nth), Append(id, nth), at(nd, nth).name, size,
                                  groqCall(
                                      groqCall(c, "groq_iodescriptor_get_nth_tensor_layout",
                                               id, nth, failAt),
                                      "groq_tensor_layout_get_name",
                                      Append(id, nth), 0, failAt),
                                  failAt)} }) :
           c \in {acc} })

\* IODescriptor::IODescriptor(iodescriptor, size)
newIODescriptor(nd, id, size, acc, failAt) ==
    Only({ Parse(l.calls, l.err, [layouts |-> l.val, size |-> size]) :
           l \in {newLayouts(nd, id, size, 0,
                      groqCall(Begin(acc),
                               "groq_iodescriptor_get_number_of_tensor_layouts",
                               id, 0, failAt),
                      failAt)} })

\* EntryPoint::EntryPoint(entrypoint, name)
newEntryPoint(ne, id, name, acc, failAt) ==
    Only({ Only({ Parse(o.calls, o.err, [name |-> name, input |-> i.val, output |-> o.val]) :
                  o \in {newIODescriptor(ne.output, Append(id, 1), ne.outputSize,
                                         i, failAt)} }) :
           i \in {newIODescriptor(ne.input, Append(id, 0), ne.inputSize,
                      groqCall(
                          groqCall(
                              groqCall(
                                  groqCall(Begin(acc),
                                           "groq_entrypoint_get_input_iodescriptor",
                                           id, 0, failAt),
                                  "groq_entrypoint_get_output_iodescriptor", id, 0, failAt),
                              "groq_entrypoint_get_input_size", id, 0, failAt),
                          "groq_entrypoint_get_output_size", id, 0, failAt),
                      failAt)} })

\* Program::Program, the loop over the native entrypoints.
RECURSIVE newEntrypoints(_, _, _, _, _)
newEntrypoints(np, id, nth, acc, failAt) ==
    Only({ IF c.err.kind # "none" \/ nth >= Len(np.entrypoints) THEN c
           ELSE Only({ IF t.err.kind # "none" THEN Parse(t.calls, t.err, c.val)
                       ELSE newEntrypoints(np, id, nth + 1,
                                           Parse(t.calls, t.err, Append(c.val, t.val)),
                                           failAt) :
                       t \in {newEntryPoint(
                                  at(np.entrypoints, nth), Append(id, nth),
                                  at(np.entrypoints, nth).name,
                                  groqCall(
                                      groqCall(c, "groq_get_nth_entrypoint", id, nth, failAt),
                                      "groq_entrypoint_get_name", Append(id, nth), 0, failAt),
                                  failAt)} }) :
           c \in {acc} })

\* Program::Program(program, name)
newProgram(np, id, name, acc, failAt) ==
    Only({ Parse(l.calls, l.err, [entrypoints |-> l.val, name |-> name]) :
           l \in {newEntrypoints(np, id, 0,
                      groqCall(Begin(acc), "groq_get_number_of_entrypoints", id, 0, failAt),
                      failAt)} })

\* IOP::initialize, the loop over the native programs.
RECURSIVE newPrograms(_, _, _, _)
newPrograms(nat, nth, acc, failAt) ==
    Only({ IF c.err.kind # "none" \/ nth >= Len(nat.programs) THEN c
           ELSE Only({ IF t.err.kind # "none" THEN Parse(t.calls, t.err, c.val)
                       ELSE newPrograms(nat, nth + 1,
                                        Parse(t.calls, t.err, Append(c.val, t.val)),
                                        failAt) :
                       t \in {newProgram(
                                  at(nat.programs, nth), <<nth>>, at(nat.programs, nth).name,
                                  groqCall(
                                      groqCall(c, "groq_get_nth_program", <<>>, nth, failAt),
                                      "groq_program_name", <<>>, nth, failAt),
                                  failAt)} }) :
           c \in {acc} })

\* initialize as it would be with the status of the program count dropped:
\* on a failure n keeps its initial 0 and the loop does not run.
initializeUnchecked(nat, ptr, size, failAt) ==
    Only({ IF failAt = 2 THEN a ELSE newPrograms(nat, 0, a, failAt) :
           a \in {groqCallUnchecked(
                      Parse(<<NativeCall("groq_iop_init", <<>>, ptr, size, RootHandle, 0,
                                         failAt # 1)>>,
                            IF failAt = 1 THEN GROQOK("groq_iop_init") ELSE NoError, <<>>),
                      "groq_iop_get_number_of_programs", <<>>, 0, failAt)} })

\* IOP::initialize(): the parse of the bytes at ptr, of which the native
\* parser reports nat. The value is the programs vector.
initialize(nat, ptr, size, failAt) ==
    newPrograms(nat, 0,
        groqCall(Parse(<<NativeCall("groq_iop_init", <<>>, ptr, size, RootHandle, 0,
                                    failAt # 1)>>,
                       IF failAt = 1 THEN GROQOK("groq_iop_init") ELSE NoError, <<>>),
                 "groq_iop_get_number_of_programs", <<>>, 0, failAt),
        failAt)

\* What a construction leaves behind: the members of the object and how the
\* constructor ended.
Built(d, ptr, r) ==
    Only({[data |-> d, ptr |-> ptr, calls |-> x.calls, err |-> x.err, programs |-> x.val] :
          x \in {r}})

\* The constructor as it would be if it kept the caller's pointer.
IOPAliasing(nat, addr, bytes, size, checked, failAt) ==
    Built(<<>>, addr, initialize(nat, addr, size, failAt))

\* IOP::IOP(buffer, size): resize, memcpy, initialize. &data[0] of an empty
\* vector is undefined: a checked standard library aborts, an unchecked one
\* yields the null pointer.
IOP(nat, addr, bytes, size, checked, failAt) ==
    IF size = 0 /\ checked
    THEN Built(<<>>, NullPtr, Parse(<<>>, AssertFailed("data[0]"), <<>>))
    ELSE Built(SubSeq(bytes, 1, size), IF size = 0 THEN NullPtr ELSE DataAddr,
               initialize(nat, IF size = 0 THEN NullPtr ELSE DataAddr, size, failAt))

\* The destructor as it would be if every program handle were released too.
deleteIOPWithChildren(ok) ==
    <<NativeCall("groq_iop_deinit", <<>>, handle.root, 0, NullPtr, 0, ok)>>
    \o [p \in 1..Len(getPrograms) |->
           NativeCall("groq_iop_deinit", <<p - 1>>, handle.root + p, 0, NullPtr, 0, ok)]

\* IOP::~IOP: one groq_iop_deinit on the root handle, its status dropped;
\* the members (data, programs) have implicit destructors.
deleteIOP(ok) ==
    <<NativeCall("groq_iop_deinit", <<>>, handle.root, 0, NullPtr, 0, ok)>>

\* The implicit copy constructor and destructor of Program, EntryPoint,
\* IODescriptor and TensorLayout: member-wise, no native call.
copyThenDestroy(tree) == <<>>

NoPrograms == [programs |-> <<>>]

\* No container yet; the caller holds an image of up to MaxBytes bytes.
InitIOP ==
    /\ iop = NoPrograms
    /\ ndebug = FALSE
    /\ phase = "unbuilt"
    /\ programIndex = 0 /\ entrypointIndex = 0
    /\ tspInputSize = 0 /\ tspOutputSize = 0
    /\ numInputs = 0 /\ numOutputs = 0
    /\ inputIoba = NullPtr /\ outputIoba = NullPtr
    /\ inputBuffers = <<>> /\ outputBuffers = <<>>
    /\ inputSizes = <<>> /\ outputSizes = <<>>
    /\ op = Op("none", <<>>)
    /\ calls = <<>>
    /\ err = NoError
    /\ allocated = {}
    /\ deallocCount = [h \in Handles |-> 0]
    /\ hostFreed = {}
    /\ native \in NativeImages
    /\ \E n \in 0..MaxBytes : source = [bytes |-> Image(n), freed |-> FALSE]
    /\ data = <<>>
    /\ handle = [root |-> NullPtr, ptr |-> NullPtr, size |-> 0]
    /\ iopPhase = "unbuilt"
    /\ rootAcquired = FALSE
    /\ rootReleases = 0
    /\ mem = NoBuffers
    /\ bindOrder = <<>>
    /\ lastGiven = NoneGiven(<<>>, <<>>)
    /\ copies = 0

\* IOP::IOP(buffer, size) on the caller's whole buffer. A constructor that
\* throws leaves no object: its members are destroyed, its destructor does
\* not run.
NewIOP(checked, failAt) ==
    /\ iopPhase = "unbuilt"
    /\ ~source.freed
    /\ \E r \in {IOP(native, CallerAddr, source.bytes, Len(source.bytes), checked, failAt)} :
       /\ op' = Op("IOP", <<>>)
       /\ calls' = r.calls
       /\ err' = r.err
       /\ rootAcquired' = (r.calls # <<>> /\ r.calls[1].ok)
       /\ IF r.err.kind = "none"
          THEN /\ iopPhase' = "live"
               /\ iop' = [programs |-> r.programs]
               /\ data' = r.data
               /\ handle' = [root |-> RootHandle, ptr |-> r.ptr, size |-> Len(source.bytes)]
          ELSE /\ iopPhase' = IF r.err.kind = "Abort" THEN "aborted" ELSE "failed"
               /\ UNCHANGED <<iop, data, handle>>
       /\ UNCHANGED <<ndebug, phase, members, bindings, resources, native, source,
                      rootReleases, mem, caller>>

\* IOP::~IOP of a constructed container.
DeleteIOP(ok) ==
    /\ iopPhase = "live"
    /\ phase # "live"
    /\ op' = Op("~IOP", <<>>)
    /\ calls' = deleteIOP(ok)
    /\ err' = NoError
    /\ rootReleases' = rootReleases + Len(CallsTo(deleteIOP(ok), "groq_iop_deinit"))
    /\ iopPhase' = "destroyed"
    /\ iop' = NoPrograms
    /\ data' = <<>>
    /\ UNCHANGED <<ndebug, phase, members, bindings, resources, native, source, handle,
                   rootAcquired, mem, caller>>

\* The caller copies the p-th Program out of the container and drops the copy.
CopyProgram(p) ==
    /\ iopPhase = "live"
    /\ InRange(getPrograms, p)
    /\ op' = Op("Program(const Program &)", <<p>>)
    /\ calls' = copyThenDestroy(at(getPrograms, p))
    /\ err' = NoError
    /\ UNCHANGED <<iop, ndebug, phase, members, bindings, resources, container, mem, caller>>

\* The caller overwrites byte k of its own buffer while the container lives.
CallerWrites(k) ==
    /\ iopPhase = "live"
    /\ ~source.freed
    /\ k \in DOMAIN source.bytes
    /\ source.bytes[k] # 0
    /\ source' = [source EXCEPT !.bytes[k] = 0]
    /\ UNCHANGED <<iop, ndebug, phase, members, bindings, op, calls, err, resources,
                   native, data, handle, iopPhase, rootAcquired, rootReleases, mem, caller>>

\* The caller frees its buffer while the container lives.
CallerFrees ==
    /\ iopPhase = "live"
    /\ ~source.freed
    /\ source' = [source EXCEPT !.freed = TRUE]
    /\ UNCHANGED <<iop, ndebug, phase, members, bindings, op, calls, err, resources,
                   native, data, handle, iopPhase, rootAcquired, rootReleases, mem, caller>>

\* Number of native calls of a parse of nat in which none fails.
ParseCalls(nat) == Len(initialize(nat, DataAddr, 1, 0).calls)

NextIOP ==
    \/ /\ iopPhase = "unbuilt"
       /\ \E checked \in BOOLEAN, failAt \in 0..ParseCalls(native) : NewIOP(checked, failAt)
    \/ \E ok \in BOOLEAN : DeleteIOP(ok)
    \/ \E p \in 0..MaxPrograms : CopyProgram(p)
    \/ \E k \in 1..MaxBytes : CallerWrites(k)
    \/ CallerFrees

\* The life of a container: construction from a buffer, use, destruction.
SpecIOP == InitIOP /\ [][NextIOP]_vars

\* ------------------------------------------------------------ round trip
\* A parsed container, and a caller with host bytes, a device-side buffer and
\* a second host buffer of any of the sizes in use.
InitRoundTrip ==
    /\ iop \in Containers
    /\ ndebug = FALSE
    /\ phase = "unbuilt"
    /\ programIndex = 0 /\ entrypointIndex = 0
    /\ tspInputSize = 0 /\ tspOutputSize = 0
    /\ numInputs = 0 /\ numOutputs = 0
    /\ inputIoba = NullPtr /\ outputIoba = NullPtr
    /\ inputBuffers = <<>> /\ outputBuffers = <<>>
    /\ inputSizes = <<>> /\ outputSizes = <<>>
    /\ op = Op("none", <<>>)
    /\ calls = <<>>
    /\ err = NoError
    /\ allocated = {}
    /\ deallocCount = [h \in Handles |-> 0]
    /\ hostFreed = {}
    /\ native = iop
    /\ source = [bytes |-> Image(1), freed |-> FALSE]
    /\ data = Image(1)
    /\ handle = [root |-> RootHandle, ptr |-> DataAddr, size |-> 1]
    /\ iopPhase = "live"
    /\ rootAcquired = TRUE
    /\ rootReleases = 0
    /\ \E h \in HostSizes, d \in (MaxSize - 1)..MaxSize, b \in HostSizes :
       \E B \in [1..h -> ByteValues] :
           mem = [a \in {HostAddr, DeviceAddr, BackAddr} |->
                     IF a = HostAddr THEN B
                     ELSE IF a = DeviceAddr THEN Zeros(d) ELSE Zeros(b)]
    /\ bindOrder = <<>>
    /\ lastGiven = NoneGiven(<<>>, <<>>)
    /\ copies = 0

\* The caller's fromHost of its host bytes into its device-side buffer,
\* through the layout at index of descriptor dir.
RoundTripFromHost(p, e, dir, index, ok) ==
    /\ op.name = "none"
    /\ LayoutsInRange(p, e)
    /\ LET ep == at(at(getPrograms, p).entrypoints, e)
           layouts == IF dir = 0 THEN ep.input.layouts ELSE ep.output.layouts
       IN /\ InRange(layouts, index)
          /\ \E r \in {fromHost(at(layouts, index), LayoutId(p, e, dir, index),
                                HostAddr, Len(mem[HostAddr]),
                                DeviceAddr, Len(mem[DeviceAddr]), ok)} :
                /\ op' = Op("fromHost", <<p, e, dir, index, mem[HostAddr]>>)
                /\ calls' = r.calls
                /\ err' = r.err
                /\ mem' = Effects(mem, r.calls)
    /\ UNCHANGED <<iop, ndebug, phase, members, bindings, resources, container, caller>>

\* After a fromHost that succeeded, the caller's toHost through the same
\* layout, from the device-side buffer into the second host buffer.
RoundTripToHost(ok) ==
    /\ op.name = "fromHost"
    /\ err.kind = "none"
    /\ LET ep == at(at(getPrograms, op.args[1]).entrypoints, op.args[2])
           layouts == IF op.args[3] = 0 THEN ep.input.layouts ELSE ep.output.layouts
       IN \E r \in {toHost(at(layouts, op.args[4]),
                           LayoutId(op.args[1], op.args[2], op.args[3], op.args[4]),
                           DeviceAddr, Len(mem[DeviceAddr]),
                           BackAddr, Len(mem[BackAddr]), ok)} :
             /\ op' = Op("toHost", op.args)
             /\ calls' = r.calls
             /\ err' = r.err
             /\ mem' = Effects(mem, r.calls)
    /\ UNCHANGED <<iop, ndebug, phase, members, bindings, resources, container, caller>>

NextRoundTrip ==
    \/ \E p \in ArgPrograms, e \in ArgPrograms, dir \in 0..1, index \in ArgIndexes,
          ok \in BOOLEAN : RoundTripFromHost(p, e, dir, index, ok)
    \/ \E ok \in BOOLEAN : RoundTripToHost(ok)

\* A caller's fromHost followed by toHost through one layout.
SpecRoundTrip == InitRoundTrip /\ [][NextRoundTrip]_vars

\* ================================================================ claims
\* The layout named by a caller's own fromHost / toHost call.
CalledLayout ==
    LET ep == at(at(getPrograms, op.args[1]).entrypoints, op.args[2])
    IN at(IF op.args[3] = 0 THEN ep.input.layouts ELSE ep.output.layouts, op.args[4])


\* C1: TensorLayout::fromHost called with inputSize # hostSize or
\* outputSize # ioSize ends in a size-mismatch error without any native call
\* (so groq_tensor_layout_from_host never touches the destination); called
\* with inputSize = hostSize and outputSize = ioSize it calls
\* groq_tensor_layout_from_host exactly once, with those two sizes.
C1_fromHostSizeContract ==
    op.name = "fromHost" =>
        LET inputSize == op.args[5]
            outputSize == op.args[6]
        IN IF inputSize = CalledLayout.size /\ outputSize = CalledLayout.iodSize
           THEN /\ Len(calls) = 1
                /\ calls[1].fn = "groq_tensor_layout_from_host"
                /\ calls[1].inputSize = inputSize
                /\ calls[1].outputSize = outputSize
                /\ err.kind # "SizeMismatch"
           ELSE /\ err.kind = "SizeMismatch"
                /\ calls = <<>>

\* C1 witness: fromHost was called with the right input size and a wrong
\* output size, and failed.
C1_Witness ==
    /\ op.name = "fromHost"
    /\ op.args[5] = CalledLayout.size
    /\ op.args[6] # CalledLayout.iodSize
    /\ err.kind = "SizeMismatch"

\* C2: TensorLayout::toHost called with inputSize # ioSize or
\* outputSize # hostSize ends in a size-mismatch error without any native
\* call; called with inputSize = ioSize and outputSize = hostSize it calls
\* groq_tensor_layout_to_host exactly once.
C2_toHostSizeContract ==
    op.name = "toHost" =>
        LET inputSize == op.args[5]
            outputSize == op.args[6]
        IN IF inputSize = CalledLayout.iodSize /\ outputSize = CalledLayout.size
           THEN /\ Len(calls) = 1
                /\ calls[1].fn = "groq_tensor_layout_to_host"
                /\ calls[1].inputSize = inputSize
                /\ calls[1].outputSize = outputSize
                /\ err.kind # "SizeMismatch"
           ELSE /\ err.kind = "SizeMismatch"
                /\ calls = <<>>

\* C2 witness: toHost was called with the device size as input size and the
\* host size as output size, the two differing, and the native conversion ran.
C2_Witness ==
    /\ op.name = "toHost"
    /\ op.args[5] = CalledLayout.iodSize
    /\ op.args[6] = CalledLayout.size
    /\ CalledLayout.size # CalledLayout.iodSize
    /\ Len(CallsTo(calls, "groq_tensor_layout_to_host")) = 1

\* C3: in every state of a live session, addInputBuffer / addOutputBuffer
\* with a valid index and a size other than the host size of the layout at
\* that index fail with a size mismatch, make no native call, and leave every
\* recorded pointer and size (both directions) as it was.
C3_WrongSizeBindRejected ==
    phase = "live" =>
        /\ \A index \in ArgIndexes : InRange(inputTensorLayouts, index) =>
             \A size \in AddSizes : size # at(inputTensorLayouts, index).size =>
               \A buffer \in ArgBuffers :
                 LET r == addInputBuffer(buffer, size, index)
                 IN /\ r.err.kind = "SizeMismatch"
                    /\ r.calls = <<>>
                    /\ <<r.inputBuffers, r.outputBuffers, r.inputSizes, r.outputSizes>>
                         = bindings
        /\ \A index \in ArgIndexes : InRange(outputTensorLayouts, index) =>
             \A size \in AddSizes : size # at(outputTensorLayouts, index).size =>
               \A buffer \in ArgBuffers :
                 LET r == addOutputBuffer(buffer, size, index)
                 IN /\ r.err.kind = "SizeMismatch"
                    /\ r.calls = <<>>
                    /\ <<r.inputBuffers, r.outputBuffers, r.inputSizes, r.outputSizes>>
                         = bindings

\* C3 witness: addInputBuffer has just failed with a size mismatch on a layout
\* whose index already holds a binding from an earlier call.
C3_Witness ==
    /\ op.name = "addInputBuffer"
    /\ err.kind = "SizeMismatch"
    /\ numInputs = 1
    /\ inputBuffers[1] \in HostPtrs
    /\ inputSizes[1] = inputTensorLayouts[1].size

\* C4: in every state of a live session, addInputBuffer / addOutputBuffer
\* with an index at or past the number
\* of layouts of the descriptor fail with an out-of-range error whatever the
\* size is, and leave every recorded pointer and size as it was.
C4_BadIndexBindRejected ==
    phase = "live" =>
        /\ \A index \in ArgIndexes : index >= Len(inputTensorLayouts) =>
             \A size \in AddSizes, buffer \in ArgBuffers :
               LET r == addInputBuffer(buffer, size, index)
               IN /\ r.err.kind = "IndexOutOfRange"
                  /\ <<r.inputBuffers, r.outputBuffers, r.inputSizes, r.outputSizes>>
                       = bindings
        /\ \A index \in ArgIndexes : index >= Len(outputTensorLayouts) =>
             \A size \in AddSizes, buffer \in ArgBuffers :
               LET r == addOutputBuffer(buffer, size, index)
               IN /\ r.err.kind = "IndexOutOfRange"
                  /\ <<r.inputBuffers, r.outputBuffers, r.inputSizes, r.outputSizes>>
                       = bindings

\* C4 witness: an out-of-range addInputBuffer on a session that has an input
\* layout bound.
C4_Witness ==
    /\ op.name = "addInputBuffer"
    /\ err.kind = "IndexOutOfRange"
    /\ \E k \in DOMAIN inputBuffers : inputBuffers[k] \in HostPtrs

\* C5: addInputBuffer (addOutputBuffer) with a valid index, a non-null buffer
\* and exactly the host size of the layout at that index returns normally in
\* every state of a live session, records the pointer and the size at that
\* index, and changes no other index and nothing of the other direction.
C5_ExactBindRecorded ==
    phase = "live" =>
        /\ \A index \in ArgIndexes : InRange(inputTensorLayouts, index) =>
             \A buffer \in HostPtrs :
               LET size == at(inputTensorLayouts, index).size
                   r == addInputBuffer(buffer, size, index)
               IN /\ r.err = NoError
                  /\ r.inputBuffers = [inputBuffers EXCEPT ![index + 1] = buffer]
                  /\ r.inputSizes = [inputSizes EXCEPT ![index + 1] = size]
                  /\ r.outputBuffers = outputBuffers
                  /\ r.outputSizes = outputSizes
        /\ \A index \in ArgIndexes : InRange(outputTensorLayouts, index) =>
             \A buffer \in HostPtrs :
               LET size == at(outputTensorLayouts, index).size
                   r == addOutputBuffer(buffer, size, index)
               IN /\ r.err = NoError
                  /\ r.outputBuffers = [outputBuffers EXCEPT ![index + 1] = buffer]
                  /\ r.outputSizes = [outputSizes EXCEPT ![index + 1] = size]
                  /\ r.inputBuffers = inputBuffers
                  /\ r.inputSizes = inputSizes

\* C5 witness: addInputBuffer has just returned normally on a session with two
\* input layouts, both now bound, to different buffers.
C5_Witness ==
    /\ op.name = "addInputBuffer"
    /\ err = NoError
    /\ numInputs = 2
    /\ inputBuffers[1] \in HostPtrs
    /\ inputBuffers[2] \in HostPtrs
    /\ inputBuffers[1] # inputBuffers[2]
    /\ inputSizes[2] = inputTensorLayouts[2].size

\* Positions of cs that call fn.
Positions(cs, fn) == {k \in DOMAIN cs : cs[k].fn = fn}

\* C6: in the native calls of one invoke, every groq_tensor_layout_from_host
\* comes before groq_invoke, and every groq_tensor_layout_to_host comes after
\* a groq_wait_for_completion that returned success: no input transcode
\* follows the execute and no output transcode precedes the end of the wait.
C6_InvokePhaseOrder ==
    op.name = "invoke" =>
        /\ \A f \in Positions(calls, "groq_tensor_layout_from_host") :
             \A x \in Positions(calls, "groq_invoke")
                      \cup Positions(calls, "groq_wait_for_completion") : f < x
        /\ \A t \in Positions(calls, "groq_tensor_layout_to_host") :
             /\ \E w \in Positions(calls, "groq_wait_for_completion") :
                  w < t /\ calls[w].ok
             /\ \E x \in Positions(calls, "groq_invoke") : x < t /\ calls[x].ok
             /\ \A f \in Positions(calls, "groq_tensor_layout_from_host") : f < t

\* C6 witness: an invoke that returned normally after transcoding an input and
\* an output.
C6_Witness ==
    /\ op.name = "invoke"
    /\ err = NoError
    /\ Positions(calls, "groq_tensor_layout_from_host") # {}
    /\ Positions(calls, "groq_tensor_layout_to_host") # {}

\* Index k of a direction was never bound: the constructor's null pointer and
\* zero size are still recorded.
NeverBound(buffers, sizes, k) == buffers[k] = NullPtr /\ sizes[k] = 0

\* The native status of every call of cs was success.
AllOk(cs) == \A k \in DOMAIN cs : cs[k].ok

\* The transcode calls of cs (native function fn) that name index i (from 0)
\* of direction dir of the chosen entrypoint.
TranscodesOf(cs, fn, dir, i) ==
    {k \in Positions(cs, fn) : cs[k].layout = LayoutId(programIndex, entrypointIndex, dir, i)}

\* C7 as claimed: an invoke on a session with a never-bound index, in which no
\* native call fails and the device size matches, does not fail, issues the
\* execute, transcodes every bound tensor and makes no transcode call for the
\* never-bound ones.
C7_UnboundTensorSkipped ==
    ( /\ op.name = "invoke"
      /\ AllOk(calls)
      /\ tspInputSize = at(at(getPrograms, programIndex).entrypoints,
                           entrypointIndex).input.size
      /\ \/ \E k \in DOMAIN inputBuffers : NeverBound(inputBuffers, inputSizes, k)
         \/ \E k \in DOMAIN outputBuffers : NeverBound(outputBuffers, outputSizes, k) )
    => /\ err = NoError
       /\ Positions(calls, "groq_invoke") # {}
       /\ \A k \in DOMAIN inputBuffers :
            Cardinality(TranscodesOf(calls, "groq_tensor_layout_from_host", 0, k - 1))
              = IF NeverBound(inputBuffers, inputSizes, k) THEN 0 ELSE 1
       /\ \A k \in DOMAIN outputBuffers :
            Cardinality(TranscodesOf(calls, "groq_tensor_layout_to_host", 1, k - 1))
              = IF NeverBound(outputBuffers, outputSizes, k) THEN 0 ELSE 1

\* C7 as amended: invoke has no check that all tensors are bound, and it skips
\* none. It takes every index in order; a never-bound index stops it: by the
\* failed assert in a build with asserts, by the size mismatch of the transcode
\* (recorded size 0) in a build without, unless the layout's host size is 0.
\* So after an invoke on a session with a never-bound input that stops it, the
\* invoke has failed, no execute was issued and no input at or after that index
\* was transcoded; with such a never-bound output the invoke has failed and no
\* output at or after that index was transcoded; and an invoke that returned
\* normally made one transcode call for every index of both directions.
C7_UnboundTensorStopsInvoke ==
    op.name = "invoke" =>
        /\ \A k \in DOMAIN inputBuffers :
             ( /\ NeverBound(inputBuffers, inputSizes, k)
               /\ (~ndebug \/ inputTensorLayouts[k].size # 0) )
             => /\ err.kind # "none"
                /\ Positions(calls, "groq_invoke") = {}
                /\ \A j \in k..numInputs :
                     TranscodesOf(calls, "groq_tensor_layout_from_host", 0, j - 1) = {}
        /\ \A k \in DOMAIN outputBuffers :
             ( /\ NeverBound(outputBuffers, outputSizes, k)
               /\ (~ndebug \/ outputTensorLayouts[k].size # 0) )
             => /\ err.kind # "none"
                /\ \A j \in k..numOutputs :
                     TranscodesOf(calls, "groq_tensor_layout_to_host", 1, j - 1) = {}
        /\ err = NoError =>
             /\ \A k \in DOMAIN inputBuffers :
                  Cardinality(TranscodesOf(calls, "groq_tensor_layout_from_host", 0, k - 1)) = 1
             /\ \A k \in DOMAIN outputBuffers :
                  Cardinality(TranscodesOf(calls, "groq_tensor_layout_to_host", 1, k - 1)) = 1

\* C7 witness: in a build without asserts, an invoke on a session whose first
\* input is bound and whose second never was transcoded the first, then failed
\* on the second with a size mismatch, all native calls having succeeded.
C7_Witness ==
    /\ op.name = "invoke"
    /\ ndebug
    /\ numInputs = 2
    /\ ~NeverBound(inputBuffers, inputSizes, 1)
    /\ NeverBound(inputBuffers, inputSizes, 2)
    /\ TranscodesOf(calls, "groq_tensor_layout_from_host", 0, 0) # {}
    /\ AllOk(calls)
    /\ err.kind = "SizeMismatch"

\* C8 as claimed: every size-mismatch error thrown by fromHost, toHost,
\* addInputBuffer or addOutputBuffer carries two numbers, the expected size
\* and the size passed.
C8_SizeMismatchReportsSizes ==
    err.kind = "SizeMismatch" => Len(err.nums) = 2

\* C9: once a constructed session is destroyed, groq_deallocate_iobuffer_array
\* has been called exactly once on its input array and exactly once on its
\* output array, whatever statuses those calls returned and whatever binds and
\* invokes came before; before that it has not been called; the destructor
\* ends without an error and the library has freed no host buffer.
C9_DestroyReleasesOncePerArray ==
    /\ phase = "destroyed" =>
         /\ deallocCount[inputIoba] = 1
         /\ deallocCount[outputIoba] = 1
         /\ inputIoba # outputIoba
         /\ err = NoError
    /\ phase # "destroyed" => \A h \in Handles : deallocCount[h] = 0
    /\ hostFreed = {}

\* C9 witness: a destroyed session that had a host buffer bound and whose
\* deallocate calls both returned a failure status.
C9_Witness ==
    /\ phase = "destroyed"
    /\ \E k \in DOMAIN inputBuffers : inputBuffers[k] \in HostPtrs
    /\ \A k \in DOMAIN calls : ~calls[k].ok

\* C10 as claimed: when construction fails, every buffer array the allocator
\* handed out before the failure has been deallocated exactly once.
C10_FailedConstructionReleases ==
    phase = "failed" => \A h \in allocated : deallocCount[h] = 1

\* The position of the native call of cs that returned a failure Status, or 0.
FailedCalls(cs) == {k \in DOMAIN cs : ~cs[k].ok}

\* C11: when any native call of the parse (root init, program count or
\* fetch, entrypoint count or fetch, descriptor fetch, layout count or fetch,
\* size, format or dimension query) returns a non-success Status, the
\* construction ends there with the error of that call, and the caller has no
\* container: no programs, no bytes, nothing partially built.
C11_ParseFailureAbortsConstruction ==
    (op.name = "IOP" /\ FailedCalls(calls) # {}) =>
        /\ iopPhase = "failed"
        /\ FailedCalls(calls) = {Len(calls)}
        /\ err = GROQOK(calls[Len(calls)].fn)
        /\ iop = NoPrograms
        /\ data = <<>>

\* A parse that had built a whole program before a dimension query of a later
\* layout failed.
C11_Witness ==
    /\ op.name = "IOP"
    /\ iopPhase = "failed"
    /\ calls[Len(calls)].fn = "groq_tensor_layout_get_nth_dimension"
    /\ \E k \in DOMAIN calls : calls[k].fn = "groq_get_nth_program" /\ calls[k].input = 1

\* C12: destroying a constructed container makes exactly one native release
\* call, groq_iop_deinit on the root handle, and none on a handle of a
\* program, entrypoint, descriptor or layout; copying and destroying a Program
\* (with the entrypoints, descriptors and layouts in it) makes no native call.
C12_OneReleaseOnRootOnly ==
    /\ op.name = "~IOP" =>
           /\ Len(calls) = 1
           /\ calls[1].fn = "groq_iop_deinit"
           /\ calls[1].layout = <<>>
           /\ calls[1].input = RootHandle
           /\ rootReleases = 1
    /\ op.name = "Program(const Program &)" => calls = <<>> /\ rootReleases = 0

\* A container of two programs, the first with entrypoints and layouts, has
\* been destroyed.
C12_Witness ==
    /\ op.name = "~IOP"
    /\ iopPhase = "destroyed"
    /\ Len(native.programs) = 2
    /\ Len(native.programs[1].entrypoints) = 2
    /\ Len(native.programs[1].entrypoints[1].input) = 2

\* C13: a root handle that groq_iop_init handed out is released exactly once
\* on every path that ends the construction or the container, a construction
\* that fails at a later parse step included.
C13_AcquiredRootReleasedOnce ==
    (iopPhase \in {"failed", "destroyed"} /\ rootAcquired) => rootReleases = 1

\* The layouts of a parsed descriptor are those the native parser reports for
\* it, in its order.
SameLayouts(parsed, reported) ==
    /\ Len(parsed) = Len(reported)
    /\ \A k \in DOMAIN reported :
           /\ parsed[k].name = reported[k].name
           /\ parsed[k].size = reported[k].size
           /\ parsed[k].format = reported[k].format
           /\ parsed[k].dimensions = reported[k].dimensions

\* C14: the parsed tree has as many programs, entrypoints per program and
\* layouts per descriptor as the native parser reports, and the k-th element
\* of every sequence is the k-th the native parser reports, with its name,
\* host size, format and dimension list.
C14_TreeMirrorsNativeOrder ==
    iopPhase = "live" =>
        /\ Len(iop.programs) = Len(native.programs)
        /\ \A p \in DOMAIN native.programs :
               /\ iop.programs[p].name = native.programs[p].name
               /\ Len(iop.programs[p].entrypoints) = Len(native.programs[p].entrypoints)
               /\ \A e \in DOMAIN native.programs[p].entrypoints :
                      LET parsed == iop.programs[p].entrypoints[e]
                          reported == native.programs[p].entrypoints[e]
                      IN /\ parsed.name = reported.name
                         /\ SameLayouts(parsed.input.layouts, reported.input)
                         /\ SameLayouts(parsed.output.layouts, reported.output)

\* A container of two programs whose first has two entrypoints of two input
\* layouts and an output layout has been parsed.
C14_Witness ==
    /\ iopPhase = "live"
    /\ op.name = "IOP"
    /\ Len(iop.programs) = 2
    /\ Len(iop.programs[1].entrypoints) = 2
    /\ Len(iop.programs[1].entrypoints[2].input.layouts) = 2
    /\ Len(iop.programs[1].entrypoints[2].output.layouts) = 1
    /\ iop.programs[1].entrypoints[2].input.layouts[2].dimensions # <<>>

\* C19: a container built from (buffer, size) holds its own copy of the
\* bytes: the native parser was pointed at the container's storage, never at
\* the caller's buffer, and whatever the caller then writes to the buffer, and
\* after the caller frees it, the container's bytes are the bytes given at
\* construction and its tree is the one parsed.
C19_BufferCopiedNotAliased ==
    iopPhase = "live" =>
        /\ data = Image(Len(source.bytes))
        /\ handle.size = Len(data)
        /\ handle.ptr # CallerAddr
        /\ data # <<>> => handle.ptr = DataAddr
        /\ Len(iop.programs) = Len(native.programs)

\* The caller has overwritten its buffer and freed it while a container built
\* from it lives.
C19_Witness ==
    /\ iopPhase = "live"
    /\ source.freed
    /\ \A k \in DOMAIN source.bytes : source.bytes[k] = 0
    /\ Len(data) > 1
    /\ iop.programs # <<>>

\* C15: when fromHost of host bytes B into a device buffer and then toHost
\* from that device buffer into a second host buffer both succeed through one
\* layout, the second host buffer holds B (the external conversion being
\* invertible).
C15_RoundTripRestoresBytes ==
    (op.name = "toHost" /\ err.kind = "none") =>
        /\ mem[BackAddr] = op.args[5]
        /\ mem[HostAddr] = op.args[5]

\* A round trip of non-empty host bytes through a device buffer larger than
\* them has succeeded.
C15_Witness ==
    /\ op.name = "toHost"
    /\ err.kind = "none"
    /\ op.args[5] # <<>>
    /\ Len(mem[DeviceAddr]) > Len(op.args[5])
    /\ mem[DeviceAddr] # Zeros(Len(mem[DeviceAddr]))

\* Every index of both directions has a buffer bound with its layout's host
\* size.
FullyBound ==
    /\ \A k \in DOMAIN inputBuffers :
           inputBuffers[k] # NullPtr /\ inputSizes[k] = getHostSize(inputTensorLayouts[k])
    /\ \A k \in DOMAIN outputBuffers :
           outputBuffers[k] # NullPtr /\ outputSizes[k] = getHostSize(outputTensorLayouts[k])

\* The device size the session passes for its inputs is the size of the input
\* descriptor.
DeviceSizeAgrees ==
    numInputs > 0 =>
        tspInputSize = at(at(getPrograms, programIndex).entrypoints,
                          entrypointIndex).input.size

\* The calls of the whole protocol made with the recorded bindings: per input
\* a data handle and a fromHost of the bound buffer, the execute and the wait,
\* per output a data handle and a toHost into the bound buffer.
FullProtocol(r) ==
    /\ r.err = NoError
    /\ Len(r.calls) = 2 * numInputs + 2 + 2 * numOutputs
    /\ \A k \in DOMAIN inputBuffers :
           /\ r.calls[2 * k].fn = "groq_tensor_layout_from_host"
           /\ r.calls[2 * k].input = inputBuffers[k]
    /\ r.calls[2 * numInputs + 1].fn = "groq_invoke"
    /\ r.calls[2 * numInputs + 2].fn = "groq_wait_for_completion"
    /\ \A k \in DOMAIN outputBuffers :
           /\ r.calls[2 * numInputs + 2 + 2 * k].fn = "groq_tensor_layout_to_host"
           /\ r.calls[2 * numInputs + 2 + 2 * k].output = outputBuffers[k]

C17_InvokeFailsFast ==
    op.name = "invoke" =>
        /\ FailedCalls(calls) \subseteq {Len(calls)}
        /\ FailedCalls(calls) # {} => err = GROQOK(calls[Len(calls)].fn)
        /\ err.kind = "Status" => FailedCalls(calls) = {Len(calls)}
        /\ err.kind = "SizeMismatch" =>
               /\ calls # <<>>
               /\ calls[Len(calls)].fn = "groq_get_data_handle"
        /\ (\A w \in Positions(calls, "groq_wait_for_completion") : ~calls[w].ok) =>
               Positions(calls, "groq_tensor_layout_to_host") = {}

\* An invoke whose wait failed after an input was transcoded, on a session
\* with a bound output.
C17_Witness ==
    /\ op.name = "invoke"
    /\ err = GROQOK("groq_wait_for_completion")
    /\ Positions(calls, "groq_tensor_layout_from_host") # {}
    /\ numOutputs > 0
    /\ outputBuffers[1] # NullPtr

\* C18: a session never has two device invocations outstanding: when the wait
\* of an invoke failed (the timeout: the invocation was issued and has not
\* completed) and the caller invokes again, that invoke issues no second
\* invocation.
C18_OneOutstandingInvocation ==
    [][ ( /\ op.name = "invoke"
          /\ err = GROQOK("groq_wait_for_completion")
          /\ op'.name = "invoke" ) =>
            \A k \in Positions(calls', "groq_invoke") : ~calls'[k].ok ]_vars

\* C20: whatever sequence of layout calls, session constructions, binds and
\* invokes has run, failed or not, the container's tree (the programs,
\* entrypoints and layouts, their order, host sizes and device sizes) is the
\* one that was parsed.
C20_MetadataReadOnly ==
    iopPhase = "live" => iop = native

\* A session over the container has been bound and has run to completion,
\* transcoding an input and an output.
C20_Witness ==
    /\ op.name = "invoke"
    /\ err = NoError
    /\ Positions(calls, "groq_tensor_layout_from_host") # {}
    /\ Positions(calls, "groq_tensor_layout_to_host") # {}
    /\ iop = native
    /\ tspOutputSize = MaxSize

\* The native calls of cs that name a program index the container does not
\* have.
CallsWithBadProgram(cs) ==
    {k \in DOMAIN cs : /\ cs[k].fn \in {"groq_program_get_input_size",
                                         "groq_program_get_output_size"}
                       /\ ~InRange(getPrograms, cs[k].input)}

\* C21 as claimed: constructing a session with a program index or an
\* entrypoint index past the end fails with IndexOutOfRange, having made no
\* native call with the bad index and no buffer-array allocation.
C21_BadIndexFailsBeforeNativeUse ==
    (op.name = "SimpleRunner" /\ ~LayoutsInRange(op.args[1], op.args[2])) =>
        /\ phase = "failed"
        /\ err = OutOfRange
        /\ CallsWithBadProgram(calls) = {}
        /\ Positions(calls, "groq_allocate_inputs_iobuffer_array") = {}
        /\ Positions(calls, "groq_allocate_outputs_iobuffer_array") = {}
        /\ allocated = {}

\* C22: in an invoke, the k-th input transcode is through the k-th layout of
\* the chosen entrypoint's input descriptor and reads the buffer recorded at
\* index k, which is the one the caller last bound there; the k-th output
\* transcode is through the k-th output layout and writes the buffer bound at
\* output index k: whatever order the bind calls were made in.
C22_IndexSelectsLayout ==
    op.name = "invoke" =>
        /\ \A k \in DOMAIN CallsTo(calls, "groq_tensor_layout_from_host") :
               LET c == CallsTo(calls, "groq_tensor_layout_from_host")[k]
               IN /\ c.layout = LayoutId(programIndex, entrypointIndex, 0, k - 1)
                  /\ c.input = inputBuffers[k]
                  /\ c.input = lastGiven.input[k]
                  /\ c.inputSize = inputSizes[k]
        /\ \A k \in DOMAIN CallsTo(calls, "groq_tensor_layout_to_host") :
               LET c == CallsTo(calls, "groq_tensor_layout_to_host")[k]
               IN /\ c.layout = LayoutId(programIndex, entrypointIndex, 1, k - 1)
                  /\ c.output = outputBuffers[k]
                  /\ c.output = lastGiven.output[k]
                  /\ c.outputSize = outputSizes[k]

\* An invoke has transcoded two inputs, bound to different buffers, of which
\* index 1 was bound before index 0.
C22_Witness ==
    /\ op.name = "invoke"
    /\ Len(CallsTo(calls, "groq_tensor_layout_from_host")) = 2
    /\ inputBuffers[1] # inputBuffers[2]
    /\ bindOrder = <<<<0, 1>>, <<0, 0>>>>

\* The output indices after k that are bound to the buffer bound at k.
LaterOutputsOf(k) == {j \in DOMAIN outputBuffers : j > k /\ outputBuffers[j] = outputBuffers[k]}

\* C23: a bind makes no native call and moves no bytes; an invoke that
\* returns normally has transcoded, for the last input, the bytes the caller's
\* buffer held when the invoke began, and has left in the caller's buffer
\* bound at each output index the host form of the device output (where no
\* later output is bound to the same buffer), the bindings being as before.
C23_BindKeepsPointerOnly ==
    [][ /\ op'.name \in {"addInputBuffer", "addOutputBuffer"} =>
              mem' = mem /\ calls' = <<>>
        /\ (phase = "live" /\ op'.name = "invoke" /\ err' = NoError) =>
              /\ bindings' = bindings
              /\ numInputs > 0 =>
                    mem'[DataHandle(inputIoba, Slot0)] =
                        LayoutFromHost(SubSeq(mem[inputBuffers[numInputs]], 1,
                                              inputSizes[numInputs]), tspInputSize)
              /\ \A k \in DOMAIN outputBuffers : LaterOutputsOf(k) = {} =>
                    SubSeq(mem'[outputBuffers[k]], 1, outputSizes[k]) =
                        LayoutToHost(mem'[DataHandle(outputIoba, Slot0)], outputSizes[k])
      ]_vars

\* An invoke has returned normally on a session whose input buffer the caller
\* overwrote with 2 after binding it: the device was given the 2 and the
\* caller's output buffer holds what the device made of it.
C23_Witness ==
    /\ op.name = "invoke"
    /\ err = NoError
    /\ numInputs = 1 /\ numOutputs = 1
    /\ inputBuffers[1] # outputBuffers[1]
    /\ mem[inputBuffers[1]] = <<2>>
    /\ mem[DataHandle(inputIoba, Slot0)] = <<0, 2>>
    /\ mem[outputBuffers[1]] = <<4>>

\* The session objects that hold the two buffer-array handles.
LiveHolders == (IF phase = "live" THEN 1 ELSE 0) + copies

\* C24 as claimed: at no point do two live session objects hold the same
\* buffer-array handle, and no buffer array is deallocated more than once.
C24_ArraysExclusivelyOwned ==
    /\ LiveHolders <= 1
    /\ \A h \in Handles : deallocCount[h] <= 1

\* The native calls cs are those of one whole invoke: per input index, in
\* increasing order, a data handle and one fromHost through that index's
\* layout; one groq_invoke; one groq_wait_for_completion with the finite
\* timeout; per output index, in increasing order, a data handle and one
\* toHost through that index's layout; and nothing else.
OneOfEach(cs) ==
    /\ Len(cs) = 2 * numInputs + 2 + 2 * numOutputs
    /\ \A i \in 1..numInputs :
           /\ cs[2 * i - 1].fn = "groq_get_data_handle"
           /\ cs[2 * i].fn = "groq_tensor_layout_from_host"
           /\ cs[2 * i].layout = LayoutId(programIndex, entrypointIndex, 0, i - 1)
    /\ cs[2 * numInputs + 1].fn = "groq_invoke"
    /\ cs[2 * numInputs + 2].fn = "groq_wait_for_completion"
    /\ cs[2 * numInputs + 2].inputSize = WaitTimeoutMs
    /\ \A i \in 1..numOutputs :
           /\ cs[2 * numInputs + 2 * i + 1].fn = "groq_get_data_handle"
           /\ cs[2 * numInputs + 2 * i + 2].fn = "groq_tensor_layout_to_host"
           /\ cs[2 * numInputs + 2 * i + 2].layout =
                  LayoutId(programIndex, entrypointIndex, 1, i - 1)

\* C25 as claimed: an invoke on a session with every input and output index
\* bound, in which every native call made returned success, has returned
\* normally after one fromHost per input in index order, one execute, one wait
\* and one toHost per output in index order.
C25_FullInvokeSequence ==
    (op.name = "invoke" /\ FullyBound /\ AllOk(calls)) =>
        err = NoError /\ OneOfEach(calls)

\* C26 as claimed: the input transcodes of one invoke are handed pairwise
\* distinct destinations.
C26_DistinctDestinations ==
    op.name = "invoke" =>
        \A j, k \in Positions(calls, "groq_tensor_layout_from_host") :
            j # k => calls[j].output # calls[k].output

\* C26: every input transcode of an invoke is handed the same destination,
\* the data of slot 0 of the input buffer array, with the whole device input
\* size; the session computes no offset per tensor.
C26_SameDestination ==
    op.name = "invoke" =>
        \A k \in Positions(calls, "groq_tensor_layout_from_host") :
            /\ calls[k].output = DataHandle(inputIoba, Slot0)
            /\ calls[k].outputSize = tspInputSize

\* An invoke has transcoded two inputs of different indices.
C26_Witness ==
    /\ op.name = "invoke"
    /\ TranscodesOf(calls, "groq_tensor_layout_from_host", 0, 0) # {}
    /\ TranscodesOf(calls, "groq_tensor_layout_from_host", 0, 1) # {}

\* C27 as claimed: the device sizes a live session holds are the aggregate
\* sizes of the chosen entrypoint's descriptors, and the device size handed to
\* every input transcode of an invoke is the ioSize of the layout transcoded.
C27_DeviceSizesOfEntrypoint ==
    phase = "live" =>
        /\ tspInputSize =
               at(at(getPrograms, programIndex).entrypoints, entrypointIndex).input.size
        /\ tspOutputSize =
               at(at(getPrograms, programIndex).entrypoints, entrypointIndex).output.size
        /\ op.name = "invoke" =>
               \A i \in 0..(numInputs - 1) :
                   \A k \in TranscodesOf(calls, "groq_tensor_layout_from_host", 0, i) :
                       calls[k].outputSize = getIoSize(at(inputTensorLayouts, i))

\* The native queries that report a size of something in the container.
SizeQueries ==
    {"groq_program_get_input_size", "groq_program_get_output_size",
     "groq_entrypoint_get_input_size", "groq_entrypoint_get_output_size",
     "groq_tensor_layout_get_size"}

\* C28 as claimed, for the operations after the construction of the
\* container: constructing a session, binding a buffer and invoking make no
\* native query for a size; the sizes come from the parsed tree.
C28_NoSizeQueryAfterParse ==
    op.name \in {"SimpleRunner", "addInputBuffer", "addOutputBuffer", "invoke"} =>
        \A k \in DOMAIN calls : calls[k].fn \notin SizeQueries

\* The sum of the ioSize values of the layouts of a descriptor.
RECURSIVE SumOfIoSizes(_)
SumOfIoSizes(layouts) ==
    IF layouts = <<>> THEN 0
    ELSE getIoSize(Head(layouts)) + SumOfIoSizes(Tail(layouts))

\* Every layout of descriptor d reports the aggregate size of d, which is the
\* size reported for the entrypoint; with two layouts or more (and a size
\* that is not 0) the ioSize values add up to more than the aggregate size.
SharedIoSize(d, reported) ==
    /\ d.size = reported
    /\ \A k \in DOMAIN d.layouts : getIoSize(d.layouts[k]) = d.size
    /\ (Len(d.layouts) >= 2 /\ d.size > 0) => SumOfIoSizes(d.layouts) > d.size

\* C29: in a parsed container every TensorLayout of an IODescriptor reports
\* the same ioSize, the descriptor's aggregate size taken from the entrypoint
\* (its input size for the input descriptor, its output size for the output
\* descriptor); ioSize is not a per-tensor size, and for a descriptor of
\* several tensors the ioSize values sum to more than the aggregate size.
C29_IoSizeIsDescriptorSize ==
    iopPhase = "live" =>
        \A p \in DOMAIN iop.programs :
            \A e \in DOMAIN iop.programs[p].entrypoints :
                /\ SharedIoSize(iop.programs[p].entrypoints[e].input,
                                native.programs[p].entrypoints[e].inputSize)
                /\ SharedIoSize(iop.programs[p].entrypoints[e].output,
                                native.programs[p].entrypoints[e].outputSize)

\* A container has been parsed whose first entrypoint has two input layouts
\* of different host sizes and an output layout.
C29_Witness ==
    /\ iopPhase = "live"
    /\ op.name = "IOP"
    /\ iop.programs # <<>>
    /\ iop.programs[1].entrypoints # <<>>
    /\ Len(iop.programs[1].entrypoints[1].input.layouts) = 2
    /\ iop.programs[1].entrypoints[1].input.layouts[1].size #
           iop.programs[1].entrypoints[1].input.layouts[2].size
    /\ SumOfIoSizes(iop.programs[1].entrypoints[1].input.layouts) =
           2 * iop.programs[1].entrypoints[1].input.size
    /\ Len(iop.programs[1].entrypoints[1].output.layouts) = 1

\* Index i (from 0) of direction dir has had a bind that returned normally.
EverBound(dir, i) == \E k \in DOMAIN bindOrder : bindOrder[k] = <<dir, i>>

\* The binding vectors of one direction: one entry per layout; the entry of a
\* never-bound index is (nullptr, 0), that of a bound index is the pointer
\* given in the last bind that returned normally, with the layout's hostSize.
BindingsMatch(dir, layouts, buffers, sizes, given) ==
    /\ Len(buffers) = Len(layouts)
    /\ Len(sizes) = Len(layouts)
    /\ \A k \in DOMAIN layouts :
           IF EverBound(dir, k - 1)
           THEN sizes[k] = getHostSize(layouts[k]) /\ buffers[k] = given[k]
           ELSE sizes[k] = 0 /\ buffers[k] = NullPtr

\* C30: whatever successful and failing addInputBuffer, addOutputBuffer and
\* invoke calls a live session has had, each binding vector has one entry per
\* tensor of its descriptor, and the entry of every index is either size 0
\* with a null pointer (never bound) or the hostSize of the layout at that
\* index with the pointer of the last successful bind there.
C30_BindingStateInvariant ==
    phase = "live" =>
        /\ BindingsMatch(0, inputTensorLayouts, inputBuffers, inputSizes, lastGiven.input)
        /\ BindingsMatch(1, outputTensorLayouts, outputBuffers, outputSizes,
                         lastGiven.output)

\* A session of two inputs, after a failed invoke: input 1 is bound, input 0
\* never was.
C30_Witness ==
    /\ phase = "live"
    /\ op.name = "invoke"
    /\ err # NoError
    /\ numInputs = 2
    /\ EverBound(0, 1) /\ ~EverBound(0, 0)
    /\ inputSizes[2] > 0 /\ inputBuffers[2] # NullPtr
    /\ inputSizes[1] = 0 /\ inputBuffers[1] = NullPtr

====
